---- MODULE Spec2Model ----
(***************************************************************************)
(* Mainstall (src/mainstall.py): the command validator, the command        *)
(* executor, the deep-disk-cleanup sequencer, the software installer and   *)
(* the registry-backed setting toggles of MainstallApp, as a state machine *)
(* over the GUI's dispatches.                                              *)
(*                                                                         *)
(* Strings are TLC strings (sequences of characters: Len, \o, SubSeq).     *)
(* Python's str | None is a record: Str(s) or None.                        *)
(***************************************************************************)
EXTENDS Integers, Sequences, FiniteSets, TLC

VARIABLES
  pc,                \* "idle": mainloop waits for an event; "done": a handler has
                     \* returned; "refresh": initialize_system_settings_states is
                     \* inside its loop
  op,                \* the handler (or function) of the current dispatch and its inputs
  ret,               \* what the dispatched function returned (NoValue for handlers)
  dialogs,           \* messagebox calls of the current dispatch, in order
  subprocess_calls,  \* subprocess.Popen / subprocess.run calls of the current dispatch
  error_log,         \* records appended to mainstall_error.log by the current dispatch
  settings_vars,     \* settings_vars[name].get(): the BooleanVar each ToggleSwitch shares
  refresh_i          \* position of the refresh loop in system_settings_definitions

vars == <<pc, op, ret, dialogs, subprocess_calls, error_log, settings_vars, refresh_i>>

------------------------------------------------------------------------------
(* Python values *)

Str(s) == [isNone |-> FALSE, str |-> s]
None == [isNone |-> TRUE, str |-> ""]

(* `not x` for x: str | None *)
Falsy(x) == x.isNone \/ x.str = ""

CharAt(s, i) == SubSeq(s, i, i)

(* U+0060 (the backquote) cannot be written inside a TLA+ string literal; the
   character is denoted here by the otherwise unused character "^". *)
BackQuote == "^"

(* str.strip() with no argument removes the characters for which isspace()
   holds; the ASCII ones that a TLA+ literal can denote are these. *)
Whitespace == {" ", "\t", "\n", "\r", "\f"}

strip(s) ==
  LET n == Len(s)
      space(i) == CharAt(s, i) \in Whitespace
  IN  IF \A i \in 1..n : space(i) THEN ""
      ELSE SubSeq(s, CHOOSE i \in 1..n : ~space(i) /\ \A j \in 1..(i - 1) : space(j),
                     CHOOSE i \in 1..n : ~space(i) /\ \A j \in (i + 1)..n : space(j))

UpperCase == "ABCDEFGHIJKLMNOPQRSTUVWXYZ"
LowerCase == "abcdefghijklmnopqrstuvwxyz"
Digits == "0123456789"

CharsOf(s) == {CharAt(s, i) : i \in 1..Len(s)}

LowerOf == [c \in CharsOf(UpperCase) |->
              CharAt(LowerCase, CHOOSE i \in 1..Len(UpperCase) : CharAt(UpperCase, i) = c)]

lower_char(c) == IF c \in DOMAIN LowerOf THEN LowerOf[c] ELSE c

(* str.lower(): every character lower-cased, computed by halves. *)
RECURSIVE lower(_)
lower(s) ==
  IF Len(s) = 0 THEN ""
  ELSE IF Len(s) = 1 THEN lower_char(s)
  ELSE LET h == Len(s) \div 2
       IN  lower(SubSeq(s, 1, h)) \o lower(SubSeq(s, h + 1, Len(s)))

(* `sub in s` for strings *)
In(sub, s) ==
  \E i \in 1..(Len(s) - Len(sub) + 1) : SubSeq(s, i, i + Len(sub) - 1) = sub

(* any(x in s for x in xs) for a list xs of strings *)
AnyIn(xs, s) == \E k \in 1..Len(xs) : In(xs[k], s)

(* sep.join(xs) *)
RECURSIVE join(_, _)
join(sep, xs) ==
  IF Len(xs) = 0 THEN ""
  ELSE IF Len(xs) = 1 THEN xs[1]
  ELSE xs[1] \o sep \o join(sep, Tail(xs))

(* template.format(value=v) for a template whose only replacement field, if
   any, is {value} (true of every set_command_template): each "{value}" is
   replaced by v. *)
RECURSIVE format_value(_, _)
format_value(template, v) ==
  LET at == {i \in 1..(Len(template) - 6) : SubSeq(template, i, i + 6) = "{value}"}
  IN  IF at = {} THEN template
      ELSE LET i == CHOOSE i \in at : \A j \in at : i <= j
           IN  SubSeq(template, 1, i - 1) \o v
               \o format_value(SubSeq(template, i + 7, Len(template)), v)

------------------------------------------------------------------------------
(* The catalogs *)

(* dangerous_chars of run_powershell_command (mainstall.py 1253). *)
rpc_dangerous_chars == <<";", "&", "|", BackQuote, "$", "(", ")", "{", "}", "[", "]">>

(* dangerous_chars of _validate_command (mainstall.py 1357). *)
vc_dangerous_chars == <<";", "&", "|", BackQuote, "$", "(", ")", "{", "}", "[", "]">>

(* allowed_commands of run_powershell_command (mainstall.py 1259-1297). *)

rpc_allowed_commands ==
  <<
    "winget install",
    "winget upgrade",
    "sfc /scannow",
    "dism /online",
    "chkdsk",
    "dism.exe /online",
    "cleanmgr",
    "remove-item",
    "write-host",
    "read-host",
    "ipconfig /flushdns",
    "stop-process",
    "wsreset.exe",
    "get-process",
    "cmd /c",
    "net stop",
    "net start",
    "ren ",
    "get-appxpackage",
    "reset-appxpackage",
    "add-appxpackage",
    "get-netadapter",
    "restart-netadapter",
    "get-itemproperty",
    "set-itemproperty",
    "reg query",
    "reg add",
    "checkpoint-computer",
    "netsh winsock reset",
    "netsh int ip reset",
    "wevtutil el",
    "wevtutil cl",
    "msdt.exe /id",
    "get-computerinfo",
    "out-file",
    "taskkill /f /im",
    "start explorer.exe"
  >>

(* allowed_commands of _validate_command (mainstall.py 1362-1400). *)

vc_allowed_commands ==
  <<
    "winget install",
    "winget upgrade",
    "sfc /scannow",
    "dism /online",
    "chkdsk",
    "dism.exe /online",
    "cleanmgr",
    "remove-item",
    "write-host",
    "read-host",
    "ipconfig /flushdns",
    "stop-process",
    "wsreset.exe",
    "get-process",
    "cmd /c",
    "net stop",
    "net start",
    "ren ",
    "get-appxpackage",
    "reset-appxpackage",
    "add-appxpackage",
    "get-netadapter",
    "restart-netadapter",
    "get-itemproperty",
    "set-itemproperty",
    "reg query",
    "reg add",
    "checkpoint-computer",
    "netsh winsock reset",
    "netsh int ip reset",
    "wevtutil el",
    "wevtutil cl",
    "msdt.exe /id",
    "get-computerinfo",
    "out-file",
    "taskkill /f /im",
    "start explorer.exe"
  >>

(* maintenance_buttons (mainstall.py 359-372): label and command; the entry
   whose command is None is the Deep Disk Cleanup special case. *)

maintenance_buttons ==
  <<
    [text |-> "Create Restore Point", command |-> Str("Checkpoint-Computer -Description 'Mainstall Restore Point' -RestorePointType 'MODIFY_SETTINGS'")],
    [text |-> "Winget Upgrade All", command |-> Str("winget upgrade --all")],
    [text |-> "SFC Scan (System File Checker)", command |-> Str("sfc /scannow")],
    [text |-> "DISM ScanHealth", command |-> Str("DISM /Online /Cleanup-Image /ScanHealth")],
    [text |-> "DISM CheckHealth", command |-> Str("DISM /Online /Cleanup-Image /CheckHealth")],
    [text |-> "DISM RestoreHealth", command |-> Str("DISM /Online /Cleanup-Image /RestoreHealth")],
    [text |-> "Check Disk (C:)", command |-> Str("chkdsk C:")],
    [text |-> "Deep Disk Cleanup", command |-> None],
    [text |-> "Clear Event Logs", command |-> Str("wevtutil el | ForEach-Object { wevtutil cl $_ }")],
    [text |-> "Launch Windows Update Troubleshooter", command |-> Str("msdt.exe /id WindowsUpdateDiagnostic")],
    [text |-> "Launch Network Adapter Troubleshooter", command |-> Str("msdt.exe /id NetworkDiagnosticsNetworkAdapter")],
    [text |-> "Export System Info Snapshot", command |-> Str("Get-ComputerInfo | Out-File \"$env:USERPROFILE\\Desktop\\SystemInfo.txt\"")]
  >>

(* quick_fixes_buttons (mainstall.py 917-932): label and command. *)

quick_fixes_buttons ==
  <<
    [text |-> "Flush DNS Cache", command |-> Str("ipconfig /flushdns")],
    [text |-> "Restart Windows Explorer", command |-> Str("Stop-Process -Name explorer -Force")],
    [text |-> "Clear Microsoft Store Cache", command |-> Str("wsreset.exe")],
    [text |-> "Kill High-CPU Background Tasks", command |-> Str("Get-Process | Where-Object { $_.CPU -gt 30 } | Stop-Process -Force")],
    [text |-> "Clear Clipboard", command |-> Str("cmd /c \"echo off | clip\"")],
    [text |-> "Clear Temp Files", command |-> Str("Remove-Item \"$env:TEMP\\*\" -Recurse -Force -ErrorAction SilentlyContinue")],
    [text |-> "Reset Windows Update", command |-> Str("net stop wuauserv; net stop cryptSvc; net stop bits; net stop msiserver; ren C:\\Windows\\SoftwareDistribution SoftwareDistribution.old; ren C:\\Windows\\System32\\catroot2 catroot2.old; net start wuauserv; net start cryptSvc; net start bits; net start msiserver")],
    [text |-> "Fix Windows Search", command |-> Str("Get-AppXPackage -Name Microsoft.Windows.Search -AllUsers | Reset-AppxPackage")],
    [text |-> "Clear Print Queue", command |-> Str("net stop spooler; Remove-Item \"$env:windir\\System32\\spool\\PRINTERS\\*\" -Recurse; net start spooler")],
    [text |-> "Restart Network Adapter", command |-> Str("Get-NetAdapter | Restart-NetAdapter -Confirm:$false")],
    [text |-> "Fix Store Apps", command |-> Str("Get-AppXPackage -AllUsers | Foreach {Add-AppxPackage -DisableDevelopmentMode -Register \"$($_.InstallLocation)\\AppXManifest.xml\"}")],
    [text |-> "Restart Windows Explorer (Command Version)", command |-> Str("cmd /c \"taskkill /f /im explorer.exe && start explorer.exe\"")],
    [text |-> "Restart Print Spooler Only", command |-> Str("net stop spooler && net start spooler")],
    [text |-> "Restart Windows Update Service", command |-> Str("net stop wuauserv && net start wuauserv")]
  >>

(* The commands list of run_deep_disk_cleanup (mainstall.py 1332-1336). *)

deep_disk_cleanup_commands ==
  <<
    "Dism.exe /Online /Cleanup-Image /StartComponentCleanup /ResetBase",
    "cleanmgr /verylowdisk /d C:",
    "Remove-Item \"$env:TEMP\\*\" -Recurse -Force -ErrorAction SilentlyContinue"
  >>

(* system_settings_definitions (mainstall.py 144-208). *)

system_settings_definitions ==
  <<
    [name |-> "Dark Mode for Apps",
     get_command |-> "Get-ItemProperty -Path \"HKCU:\\Software\\Microsoft\\Windows\\CurrentVersion\\Themes\\Personalize\" -Name AppsUseLightTheme -ErrorAction SilentlyContinue | Select-Object -ExpandProperty AppsUseLightTheme",
     set_command_template |-> "Set-ItemProperty -Path \"HKCU:\\Software\\Microsoft\\Windows\\CurrentVersion\\Themes\\Personalize\" -Name AppsUseLightTheme -Value {value} -Type DWord -Force",
     dark_value |-> "0", light_value |-> "1", reboot_required |-> FALSE],
    [name |-> "Show Hidden Files",
     get_command |-> "Get-ItemProperty -Path \"HKCU:\\Software\\Microsoft\\Windows\\CurrentVersion\\Explorer\\Advanced\" -Name Hidden -ErrorAction SilentlyContinue | Select-Object -ExpandProperty Hidden",
     set_command_template |-> "Set-ItemProperty -Path \"HKCU:\\Software\\Microsoft\\Windows\\CurrentVersion\\Explorer\\Advanced\" -Name Hidden -Value {value}",
     dark_value |-> "1", light_value |-> "2", reboot_required |-> FALSE],
    [name |-> "Clipboard History",
     get_command |-> "try { $val = Get-ItemProperty -Path \"HKCU:\\Software\\Microsoft\\Clipboard\" -Name EnableClipboardHistory -ErrorAction SilentlyContinue | Select-Object -ExpandProperty EnableClipboardHistory; if ($val -eq $null) { \"0\" } else { $val.ToString() } } catch { \"0\" }",
     set_command_template |-> "Set-ItemProperty -Path \"HKCU:\\Software\\Microsoft\\Clipboard\" -Name EnableClipboardHistory -Value {value} -Type DWord -Force",
     dark_value |-> "1", light_value |-> "0", reboot_required |-> FALSE],
    [name |-> "Show File Extensions",
     get_command |-> "Get-ItemProperty -Path \"HKCU:\\Software\\Microsoft\\Windows\\CurrentVersion\\Explorer\\Advanced\" -Name HideFileExt -ErrorAction SilentlyContinue | Select-Object -ExpandProperty HideFileExt",
     set_command_template |-> "Set-ItemProperty -Path \"HKCU:\\Software\\Microsoft\\Windows\\CurrentVersion\\Explorer\\Advanced\" -Name HideFileExt -Value {value}",
     dark_value |-> "0", light_value |-> "1", reboot_required |-> FALSE],
    [name |-> "Disable Background Apps",
     get_command |-> "try { $val = Get-ItemProperty -Path \"HKCU:\\Software\\Microsoft\\Windows\\CurrentVersion\\BackgroundAccessApplications\" -Name GlobalUserDisabled -ErrorAction SilentlyContinue | Select-Object -ExpandProperty GlobalUserDisabled; if ($val -eq $null) { \"0\" } else { $val.ToString() } } catch { \"0\" }",
     set_command_template |-> "Set-ItemProperty -Path \"HKCU:\\Software\\Microsoft\\Windows\\CurrentVersion\\BackgroundAccessApplications\" -Name GlobalUserDisabled -Value {value} -Type DWord -Force",
     dark_value |-> "1", light_value |-> "0", reboot_required |-> FALSE],
    [name |-> "Disable Lock Screen",
     get_command |-> "try { $val = Get-ItemProperty -Path \"HKLM:\\SOFTWARE\\Policies\\Microsoft\\Windows\\Personalization\" -Name NoLockScreen -ErrorAction SilentlyContinue | Select-Object -ExpandProperty NoLockScreen; if ($val -eq $null) { \"0\" } else { $val.ToString() } } catch { \"0\" }",
     set_command_template |-> "Set-ItemProperty -Path \"HKLM:\\SOFTWARE\\Policies\\Microsoft\\Windows\\Personalization\" -Name NoLockScreen -Value {value} -Type DWord -Force",
     dark_value |-> "1", light_value |-> "0", reboot_required |-> TRUE],
    [name |-> "Disable Startup Delay",
     get_command |-> "try { $val = Get-ItemProperty -Path \"HKLM:\\SOFTWARE\\Microsoft\\Windows\\CurrentVersion\\Explorer\\Serialize\" -Name StartupDelayInMSec -ErrorAction SilentlyContinue | Select-Object -ExpandProperty StartupDelayInMSec; if ($val -eq $null -or $val -ne 0) { \"0\" } else { \"1\" } } catch { \"0\" }",
     set_command_template |-> "Set-ItemProperty -Path \"HKLM:\\SOFTWARE\\Microsoft\\Windows\\CurrentVersion\\Explorer\\Serialize\" -Name StartupDelayInMSec -Value 0 -Type DWord -Force",
     dark_value |-> "1", light_value |-> "0", reboot_required |-> TRUE]
  >>

(* software_categories (mainstall.py 468-621), flattened in source order (the tab
   re-sorts each category by name, which changes no entry). *)

software_categories ==
  <<
    [category |-> "Backup & Imaging", app_name |-> "AOMEI Backupper", app_id |-> "AOMEI.Backupper"],
    [category |-> "Backup & Imaging", app_name |-> "AOMEI Partition Assistant", app_id |-> "AOMEI.PartitionAssistant"],
    [category |-> "Backup & Imaging", app_name |-> "Macrium Reflect Free", app_id |-> "ParamountSoftwareUK.MacriumReflect.Free"],
    [category |-> "Backup & Imaging", app_name |-> "Ventoy", app_id |-> "Ventoy.Ventoy"],
    [category |-> "Backup & Imaging", app_name |-> "balenaEtcher", app_id |-> "Balena.Etcher"],
    [category |-> "Browsers & Communication", app_name |-> "Brave", app_id |-> "Brave.Brave"],
    [category |-> "Browsers & Communication", app_name |-> "Discord", app_id |-> "Discord.Discord"],
    [category |-> "Browsers & Communication", app_name |-> "Google Chrome", app_id |-> "Google.Chrome"],
    [category |-> "Browsers & Communication", app_name |-> "Google Chrome Remote Desktop", app_id |-> "Google.ChromeRemoteDesktop"],
    [category |-> "Browsers & Communication", app_name |-> "Microsoft Edge", app_id |-> "Microsoft.Edge"],
    [category |-> "Browsers & Communication", app_name |-> "Mozilla Firefox", app_id |-> "Mozilla.Firefox"],
    [category |-> "Browsers & Communication", app_name |-> "Opera", app_id |-> "Opera.Opera"],
    [category |-> "Browsers & Communication", app_name |-> "Vivaldi", app_id |-> "VivaldiTechnologies.Vivaldi"],
    [category |-> "Development Tools", app_name |-> ".NET Desktop Runtime 6", app_id |-> "Microsoft.DotNet.DesktopRuntime.6"],
    [category |-> "Development Tools", app_name |-> ".NET SDK 6", app_id |-> "Microsoft.DotNet.SDK.6"],
    [category |-> "Development Tools", app_name |-> "Atom", app_id |-> "GitHub.Atom"],
    [category |-> "Development Tools", app_name |-> "Chocolatey", app_id |-> "Chocolatey.Choco"],
    [category |-> "Development Tools", app_name |-> "Docker Desktop", app_id |-> "Docker.DockerDesktop"],
    [category |-> "Development Tools", app_name |-> "Git for Windows", app_id |-> "Git.Git"],
    [category |-> "Development Tools", app_name |-> "Java Runtime Environment", app_id |-> "Oracle.JavaRuntimeEnvironment"],
    [category |-> "Development Tools", app_name |-> "Node.js", app_id |-> "OpenJS.NodeJS"],
    [category |-> "Development Tools", app_name |-> "Node.js LTS", app_id |-> "OpenJS.NodeJS.LTS"],
    [category |-> "Development Tools", app_name |-> "Postman", app_id |-> "Postman.Postman"],
    [category |-> "Development Tools", app_name |-> "Python", app_id |-> "Python.Python.3.12"],
    [category |-> "Development Tools", app_name |-> "Python (LTS)", app_id |-> "Python.Python.3"],
    [category |-> "Development Tools", app_name |-> "Scoop", app_id |-> "ScoopInstaller.Scoop"],
    [category |-> "Development Tools", app_name |-> "Sublime Text", app_id |-> "SublimeHQ.SublimeText.4"],
    [category |-> "Development Tools", app_name |-> "Visual Studio Code", app_id |-> "Microsoft.VisualStudioCode"],
    [category |-> "Development Tools", app_name |-> "WinMerge", app_id |-> "WinMerge.WinMerge"],
    [category |-> "File Management", app_name |-> "7-Zip", app_id |-> "7zip.7zip"],
    [category |-> "File Management", app_name |-> "Dropbox", app_id |-> "Dropbox.Dropbox"],
    [category |-> "File Management", app_name |-> "Everything", app_id |-> "voidtools.Everything"],
    [category |-> "File Management", app_name |-> "FileZilla", app_id |-> "FileZilla.FileZilla"],
    [category |-> "File Management", app_name |-> "FreeFileSync", app_id |-> "FreeFileSync.FreeFileSync"],
    [category |-> "File Management", app_name |-> "Google Drive", app_id |-> "Google.Drive"],
    [category |-> "File Management", app_name |-> "OneDrive", app_id |-> "Microsoft.OneDrive"],
    [category |-> "File Management", app_name |-> "Rufus", app_id |-> "Rufus.Rufus"],
    [category |-> "File Management", app_name |-> "TeraCopy", app_id |-> "CodeSector.TeraCopy"],
    [category |-> "File Management", app_name |-> "WinRAR", app_id |-> "RARLab.WinRAR"],
    [category |-> "File Management", app_name |-> "WinSCP", app_id |-> "WinSCP.WinSCP"],
    [category |-> "Gaming & Entertainment", app_name |-> "Battle.net", app_id |-> "Blizzard.BattleNet"],
    [category |-> "Gaming & Entertainment", app_name |-> "DOSBox", app_id |-> "DOSBox.DOSBox"],
    [category |-> "Gaming & Entertainment", app_name |-> "Epic Games Launcher", app_id |-> "EpicGames.EpicGamesLauncher"],
    [category |-> "Gaming & Entertainment", app_name |-> "GOG Galaxy", app_id |-> "GOG.Galaxy"],
    [category |-> "Gaming & Entertainment", app_name |-> "Origin", app_id |-> "ElectronicArts.EADesktop"],
    [category |-> "Gaming & Entertainment", app_name |-> "Steam", app_id |-> "Valve.Steam"],
    [category |-> "Gaming & Entertainment", app_name |-> "Ubisoft Connect", app_id |-> "Ubisoft.Connect"],
    [category |-> "Graphics & Media", app_name |-> "Audacity", app_id |-> "Audacity.Audacity"],
    [category |-> "Graphics & Media", app_name |-> "Blender", app_id |-> "BlenderFoundation.Blender"],
    [category |-> "Graphics & Media", app_name |-> "DaVinci Resolve", app_id |-> "BlackmagicDesign.DaVinciResolve"],
    [category |-> "Graphics & Media", app_name |-> "GIMP", app_id |-> "GIMP.GIMP"],
    [category |-> "Graphics & Media", app_name |-> "HandBrake", app_id |-> "HandBrake.HandBrake"],
    [category |-> "Graphics & Media", app_name |-> "Inkscape", app_id |-> "Inkscape.Inkscape"],
    [category |-> "Graphics & Media", app_name |-> "IrfanView", app_id |-> "IrfanSkiljan.IrfanView"],
    [category |-> "Graphics & Media", app_name |-> "K-Lite Codec Pack", app_id |-> "CodecGuide.K-LiteCodecPack.Mega"],
    [category |-> "Graphics & Media", app_name |-> "Krita", app_id |-> "KDE.Krita"],
    [category |-> "Graphics & Media", app_name |-> "Lightworks", app_id |-> "EditShare.Lightworks"],
    [category |-> "Graphics & Media", app_name |-> "OBS Studio", app_id |-> "OBSProject.OBSStudio"],
    [category |-> "Graphics & Media", app_name |-> "Paint.NET", app_id |-> "dotPDNLLC.Paint.NET"],
    [category |-> "Graphics & Media", app_name |-> "SketchUp", app_id |-> "Trimble.SketchUp"],
    [category |-> "Graphics & Media", app_name |-> "VLC Media Player", app_id |-> "VideoLAN.VLC"],
    [category |-> "Network & Remote Access", app_name |-> "Advanced IP Scanner", app_id |-> "Famatech.AdvancedIPScanner"],
    [category |-> "Network & Remote Access", app_name |-> "Angry IP Scanner", app_id |-> "AngryIPScanner.AngryIPScanner"],
    [category |-> "Network & Remote Access", app_name |-> "AnyDesk", app_id |-> "AnyDeskSoftwareGmbH.AnyDesk"],
    [category |-> "Network & Remote Access", app_name |-> "Fiddler", app_id |-> "Telerik.Fiddler"],
    [category |-> "Network & Remote Access", app_name |-> "LocalSend", app_id |-> "localsend.Localsend"],
    [category |-> "Network & Remote Access", app_name |-> "NetWorx", app_id |-> "SoftPerfect.NetWorx"],
    [category |-> "Network & Remote Access", app_name |-> "nmap", app_id |-> "Insecure.Nmap"],
    [category |-> "Network & Remote Access", app_name |-> "OpenVPN", app_id |-> "OpenVPNTechnologies.OpenVPN"],
    [category |-> "Network & Remote Access", app_name |-> "ProtonVPN", app_id |-> "ProtonTechnologies.ProtonVPN"],
    [category |-> "Network & Remote Access", app_name |-> "PuTTY", app_id |-> "PuTTY.PuTTY"],
    [category |-> "Network & Remote Access", app_name |-> "Speedtest by Ookla", app_id |-> "Ookla.Speedtest.Desktop"],
    [category |-> "Network & Remote Access", app_name |-> "TeamViewer", app_id |-> "TeamViewer.TeamViewer"],
    [category |-> "Network & Remote Access", app_name |-> "Wireshark", app_id |-> "WiresharkFoundation.Wireshark"],
    [category |-> "Office & Productivity", app_name |-> "Adobe Acrobat Reader", app_id |-> "Adobe.Acrobat.Reader.32-bit"],
    [category |-> "Office & Productivity", app_name |-> "Adobe Acrobat Reader 64-bit", app_id |-> "Adobe.Acrobat.Reader.64-bit"],
    [category |-> "Office & Productivity", app_name |-> "AutoHotkey", app_id |-> "AutoHotkey.AutoHotkey"],
    [category |-> "Office & Productivity", app_name |-> "Calibre", app_id |-> "calibre.calibre"],
    [category |-> "Office & Productivity", app_name |-> "Foxit Reader", app_id |-> "Foxit.FoxitReader"],
    [category |-> "Office & Productivity", app_name |-> "Greenshot", app_id |-> "Greenshot.Greenshot"],
    [category |-> "Office & Productivity", app_name |-> "KeePass", app_id |-> "KeePassXCTeam.KeePassXC"],
    [category |-> "Office & Productivity", app_name |-> "LibreOffice", app_id |-> "TheDocumentFoundation.LibreOffice"],
    [category |-> "Office & Productivity", app_name |-> "Microsoft PowerToys", app_id |-> "Microsoft.PowerToys"],
    [category |-> "Office & Productivity", app_name |-> "Microsoft Teams", app_id |-> "Microsoft.Teams"],
    [category |-> "Office & Productivity", app_name |-> "Notepad++", app_id |-> "Notepad++.Notepad++"],
    [category |-> "Office & Productivity", app_name |-> "Obsidian", app_id |-> "Obsidian.Obsidian"],
    [category |-> "Office & Productivity", app_name |-> "ONLYOFFICE Desktop Editors", app_id |-> "ONLYOFFICE.DesktopEditors"],
    [category |-> "Office & Productivity", app_name |-> "ShareX", app_id |-> "ShareX.ShareX"],
    [category |-> "Office & Productivity", app_name |-> "Sumatra PDF", app_id |-> "SumatraPDF.SumatraPDF"],
    [category |-> "Office & Productivity", app_name |-> "Trello", app_id |-> "Atlassian.Trello"],
    [category |-> "Office & Productivity", app_name |-> "Typora", app_id |-> "Typora.Typora"],
    [category |-> "Office & Productivity", app_name |-> "WPS Office", app_id |-> "Kingsoft.WPSOffice"],
    [category |-> "Office & Productivity", app_name |-> "Zoom", app_id |-> "Zoom.Zoom"],
    [category |-> "Security", app_name |-> "Avast Free Antivirus", app_id |-> "AvastSoftware.AvastFreeAntivirus"],
    [category |-> "Security", app_name |-> "AVG AntiVirus Free", app_id |-> "AVGSoftware.AVG"],
    [category |-> "Security", app_name |-> "Bitdefender Free", app_id |-> "Bitdefender.Bitdefender"],
    [category |-> "Security", app_name |-> "Bitwarden", app_id |-> "Bitwarden.Bitwarden"],
    [category |-> "Security", app_name |-> "CCleaner", app_id |-> "Piriform.CCleaner"],
    [category |-> "Security", app_name |-> "DefenderUI", app_id |-> "DefenderUI.DefenderUI"],
    [category |-> "Security", app_name |-> "GlassWire", app_id |-> "SecureMixLLC.GlassWire"],
    [category |-> "Security", app_name |-> "Kaspersky Virus Removal Tool", app_id |-> "Kaspersky.VirusRemovalTool"],
    [category |-> "Security", app_name |-> "Malwarebytes", app_id |-> "Malwarebytes.Malwarebytes"],
    [category |-> "Security", app_name |-> "Spybot Search & Destroy", app_id |-> "SaferNetworkingLtd.SpybotSearchAndDestroy"],
    [category |-> "Security", app_name |-> "VeraCrypt", app_id |-> "IDRIX.VeraCrypt"],
    [category |-> "Security", app_name |-> "Windows Defender Exclusions Manager", app_id |-> "Microsoft.WindowsDefenderExclusionsManager"],
    [category |-> "Security", app_name |-> "Windows Firewall Control", app_id |-> "BiniSoft.WindowsFirewallControl"],
    [category |-> "System Monitoring & Diagnostics", app_name |-> "AIDA64", app_id |-> "FinalWire.AIDA64"],
    [category |-> "System Monitoring & Diagnostics", app_name |-> "Autoruns", app_id |-> "Microsoft.Autoruns"],
    [category |-> "System Monitoring & Diagnostics", app_name |-> "Cinebench", app_id |-> "Maxon.Cinebench"],
    [category |-> "System Monitoring & Diagnostics", app_name |-> "CPU-Z", app_id |-> "CPUID.CPU-Z"],
    [category |-> "System Monitoring & Diagnostics", app_name |-> "CrystalDiskInfo", app_id |-> "CrystalDewWorld.CrystalDiskInfo"],
    [category |-> "System Monitoring & Diagnostics", app_name |-> "CrystalDiskMark", app_id |-> "CrystalDewWorld.CrystalDiskMark"],
    [category |-> "System Monitoring & Diagnostics", app_name |-> "FurMark", app_id |-> "Geeks3D.FurMark"],
    [category |-> "System Monitoring & Diagnostics", app_name |-> "GPU-Z", app_id |-> "TechPowerUp.GPU-Z"],
    [category |-> "System Monitoring & Diagnostics", app_name |-> "HWiNFO", app_id |-> "REALiX.HWiNFO"],
    [category |-> "System Monitoring & Diagnostics", app_name |-> "HWMonitor", app_id |-> "CPUID.HWMonitor"],
    [category |-> "System Monitoring & Diagnostics", app_name |-> "MemTest86", app_id |-> "PassMark.MemTest86"],
    [category |-> "System Monitoring & Diagnostics", app_name |-> "MSI Afterburner", app_id |-> "Guru3D.Afterburner"],
    [category |-> "System Monitoring & Diagnostics", app_name |-> "OCCT", app_id |-> "OCBASE.OCCT"],
    [category |-> "System Monitoring & Diagnostics", app_name |-> "PC Health Check", app_id |-> "Microsoft.PCHealthCheck"],
    [category |-> "System Monitoring & Diagnostics", app_name |-> "Prime95", app_id |-> "Mersenne.Prime95"],
    [category |-> "System Monitoring & Diagnostics", app_name |-> "Process Explorer", app_id |-> "Microsoft.Sysinternals.ProcessExplorer"],
    [category |-> "System Monitoring & Diagnostics", app_name |-> "Process Hacker", app_id |-> "ProcessHacker.ProcessHacker"],
    [category |-> "System Monitoring & Diagnostics", app_name |-> "Process Monitor", app_id |-> "Microsoft.ProcessMonitor"],
    [category |-> "System Monitoring & Diagnostics", app_name |-> "Revo Registry Cleaner", app_id |-> "VS Revo Group.Revo Registry Cleaner"],
    [category |-> "System Monitoring & Diagnostics", app_name |-> "Revo Uninstaller", app_id |-> "RevoUninstaller.RevoUninstaller"],
    [category |-> "System Monitoring & Diagnostics", app_name |-> "Speccy", app_id |-> "Piriform.Speccy"],
    [category |-> "System Monitoring & Diagnostics", app_name |-> "Sysinternals Suite", app_id |-> "Microsoft.SysinternalsSuite"],
    [category |-> "System Monitoring & Diagnostics", app_name |-> "TCPView", app_id |-> "Microsoft.TCPView"],
    [category |-> "System Monitoring & Diagnostics", app_name |-> "VirtualBox", app_id |-> "Oracle.VirtualBox"],
    [category |-> "System Monitoring & Diagnostics", app_name |-> "VMware Workstation Player", app_id |-> "VMware.WorkstationPlayer"],
    [category |-> "System Monitoring & Diagnostics", app_name |-> "WinDirStat", app_id |-> "WinDirStat.WinDirStat"]
  >>
------------------------------------------------------------------------------
(* The environment of one dispatch *)

MaxReturnCode == 1

(* subprocess.TimeoutExpired and OSError both derive from Exception. *)
ExceptionClasses == {"TimeoutExpired", "OSError"}

(* timeout=10 of get_registry_value's subprocess.run. *)
RegistryTimeout == 10

(* How long the child process of a blocking subprocess.run takes. *)
Durations == {0, RegistryTimeout, RegistryTimeout + 1}

(* What the operating system does with a process run_powershell_command asks
   for: the spawn succeeds or raises OSError (executable not found, access
   denied); a spawned child exits with some code or never exits; the error log
   can be opened for appending or open() raises OSError. *)
ExecEnvs ==
  [spawn : {"ok"}, exits : BOOLEAN, returncode : 0..MaxReturnCode, log_writable : {TRUE}]
  \cup [spawn : {"OSError"}, exits : {TRUE}, returncode : {0}, log_writable : BOOLEAN]

(* The same for a visible console, which the program starts and never waits
   for: whether and how the child exits is not observed. *)
PopenEnvs == {env \in ExecEnvs : env.exits /\ env.returncode = 0}

(* No process is asked for when the user answers no. *)
EnvsFor(answer) == IF answer THEN PopenEnvs ELSE {CHOOSE env \in PopenEnvs : env.spawn = "ok"}

(* What the child process of a registry query prints. *)
Outputs == {"", "\n", "0", "1", "1\n", " 1\r\n", "2", "01", "1 0", "True"}

ReadEnvs ==
  [spawn : {"ok", "OSError"}, duration : Durations,
   returncode : 0..MaxReturnCode, stdout : Outputs]

(* The queries the Refresh loop is run against. *)
RefreshEnvs ==
  {env \in ReadEnvs : env.stdout \in {"", "0", "1\n"} /\ env.duration # RegistryTimeout}

------------------------------------------------------------------------------
(* messagebox *)

showerror(title, message) ==
  [kind |-> "showerror", title |-> title, message |-> message, answer |-> "ok"]

showinfo(title, message) ==
  [kind |-> "showinfo", title |-> title, message |-> message, answer |-> "ok"]

askyesno(title, message, answer) ==
  [kind |-> "askyesno", title |-> title, message |-> message,
   answer |-> IF answer THEN "yes" ELSE "no"]

(* What a function did: the dialogs it showed, the subprocess calls it made,
   the records it appended to the error log, whether it raised to its caller
   and whether it never returned (a blocking call on a child that never exits). *)
Effects(ds, calls, log, raised, blocked) ==
  [dialogs |-> ds, calls |-> calls, log |-> log, raised |-> raised, blocked |-> blocked]

Rejected(dialog) == Effects(<<dialog>>, <<>>, <<>>, FALSE, FALSE)

------------------------------------------------------------------------------
(* _validate_command without its dangerous-character check. *)
_validate_command_allow_only(command) ==
  IF Falsy(command) \/ Len(strip(command.str)) = 0 THEN FALSE
  ELSE AnyIn(vc_allowed_commands, lower(command.str))

(* _validate_command matching the allow-list against the command as typed. *)
_validate_command_case_sensitive(command) ==
  IF Falsy(command) \/ Len(strip(command.str)) = 0 THEN FALSE
  ELSE IF AnyIn(vc_dangerous_chars, command.str) THEN FALSE
  ELSE AnyIn(vc_allowed_commands, command.str)

(* _validate_command without its allow-list check. *)
_validate_command_deny_only(command) ==
  IF Falsy(command) \/ Len(strip(command.str)) = 0 THEN FALSE
  ELSE ~AnyIn(vc_dangerous_chars, command.str)

(* _validate_command matching the allow-list against the start of the command
   only (str.startswith). *)
_validate_command_leading_token(command) ==
  IF Falsy(command) \/ Len(strip(command.str)) = 0 THEN FALSE
  ELSE IF AnyIn(vc_dangerous_chars, command.str) THEN FALSE
  ELSE \E k \in 1..Len(vc_allowed_commands) :
         /\ Len(vc_allowed_commands[k]) <= Len(command.str)
         /\ SubSeq(lower(command.str), 1, Len(vc_allowed_commands[k]))
              = vc_allowed_commands[k]

(* MainstallApp._validate_command (mainstall.py 1348-1403) *)

_validate_command(command) ==
  IF Falsy(command) \/ Len(strip(command.str)) = 0 THEN FALSE
  ELSE IF AnyIn(vc_dangerous_chars, command.str) THEN FALSE
  ELSE AnyIn(vc_allowed_commands, lower(command.str))

(* The launch step of run_powershell_command (mainstall.py 1304-1325). *)
launch(command, skip_security_check, visible_window, env) ==
  LET call == [api |-> IF visible_window THEN "Popen" ELSE "run",
               command |-> command.str,
               visible |-> visible_window,
               skip_security_check |-> skip_security_check,
               has_timeout |-> FALSE, timeout |-> 0,
               started |-> env.spawn = "ok"]
  IN  IF env.spawn = "ok"
      THEN Effects(<<>>, <<call>>, <<>>, FALSE, ~visible_window /\ ~env.exits)
      ELSE IF env.log_writable
      THEN Effects(<<showerror("Error",
                               "Failed to execute command: " \o env.spawn
                               \o "\n\nCommand: " \o command.str)>>,
                   <<call>>,
                   <<"Error executing command: " \o env.spawn
                     \o "\nCommand: " \o command.str \o "\n">>,
                   FALSE, FALSE)
      ELSE Effects(<<>>, <<call>>, <<>>, TRUE, FALSE)

(* run_powershell_command with its input validation made part of the
   security check, and so skipped with it. *)
run_powershell_command_blank_unchecked(command, skip_security_check, visible_window, env) ==
  IF ~skip_security_check /\ (Falsy(command) \/ Len(strip(command.str)) = 0)
  THEN Rejected(showerror("Error", "No command provided."))
  ELSE IF ~skip_security_check /\ AnyIn(rpc_dangerous_chars, command.str)
  THEN Rejected(showerror("Security Error",
                          "Command contains potentially dangerous characters."))
  ELSE IF ~AnyIn(rpc_allowed_commands, lower(command.str))
  THEN Rejected(showerror("Security Error", "Command not in allowed list."))
  ELSE launch(command, skip_security_check, visible_window, env)

(* run_powershell_command applying its deny list whatever skip_security_check
   says. *)
run_powershell_command_never_skips(command, skip_security_check, visible_window, env) ==
  IF Falsy(command) \/ Len(strip(command.str)) = 0
  THEN Rejected(showerror("Error", "No command provided."))
  ELSE IF AnyIn(rpc_dangerous_chars, command.str)
  THEN Rejected(showerror("Security Error",
                          "Command contains potentially dangerous characters."))
  ELSE IF ~AnyIn(rpc_allowed_commands, lower(command.str))
  THEN Rejected(showerror("Security Error", "Command not in allowed list."))
  ELSE launch(command, skip_security_check, visible_window, env)

(* run_powershell_command without the return after its dangerous-character
   error. *)
run_powershell_command_no_return(command, skip_security_check, visible_window, env) ==
  IF Falsy(command) \/ Len(strip(command.str)) = 0
  THEN Rejected(showerror("Error", "No command provided."))
  ELSE
    LET denied == IF ~skip_security_check /\ AnyIn(rpc_dangerous_chars, command.str)
                  THEN <<showerror("Security Error",
                                   "Command contains potentially dangerous characters.")>>
                  ELSE <<>>
        l == launch(command, skip_security_check, visible_window, env)
    IN  IF ~AnyIn(rpc_allowed_commands, lower(command.str))
        THEN Effects(denied \o <<showerror("Security Error", "Command not in allowed list.")>>,
                     <<>>, <<>>, FALSE, FALSE)
        ELSE Effects(denied \o l.dialogs, l.calls, l.log, l.raised, l.blocked)

(* run_powershell_command with a deny list of its own that lacks the square
   brackets of _validate_command's list. *)
run_powershell_command_own_deny_list(command, skip_security_check, visible_window, env) ==
  IF Falsy(command) \/ Len(strip(command.str)) = 0
  THEN Rejected(showerror("Error", "No command provided."))
  ELSE IF ~skip_security_check
          /\ AnyIn(SubSeq(rpc_dangerous_chars, 1, Len(rpc_dangerous_chars) - 2), command.str)
  THEN Rejected(showerror("Security Error",
                          "Command contains potentially dangerous characters."))
  ELSE IF ~AnyIn(rpc_allowed_commands, lower(command.str))
  THEN Rejected(showerror("Security Error", "Command not in allowed list."))
  ELSE launch(command, skip_security_check, visible_window, env)

(* run_powershell_command matching its allow list against the command as
   written, without lower-casing it. *)
run_powershell_command_case_sensitive(command, skip_security_check, visible_window, env) ==
  IF Falsy(command) \/ Len(strip(command.str)) = 0
  THEN Rejected(showerror("Error", "No command provided."))
  ELSE IF ~skip_security_check /\ AnyIn(rpc_dangerous_chars, command.str)
  THEN Rejected(showerror("Security Error",
                          "Command contains potentially dangerous characters."))
  ELSE IF ~AnyIn(rpc_allowed_commands, command.str)
  THEN Rejected(showerror("Security Error", "Command not in allowed list."))
  ELSE launch(command, skip_security_check, visible_window, env)

(* MainstallApp.run_powershell_command (mainstall.py 1237-1325) *)

run_powershell_command(command, skip_security_check, visible_window, env) ==
  IF Falsy(command) \/ Len(strip(command.str)) = 0
  THEN Rejected(showerror("Error", "No command provided."))
  ELSE IF ~skip_security_check /\ AnyIn(rpc_dangerous_chars, command.str)
  THEN Rejected(showerror("Security Error",
                          "Command contains potentially dangerous characters."))
  ELSE IF ~AnyIn(rpc_allowed_commands, lower(command.str))
  THEN Rejected(showerror("Security Error", "Command not in allowed list."))
  ELSE launch(command, skip_security_check, visible_window, env)

(* MainstallApp.run_deep_disk_cleanup (mainstall.py 1327-1346) *)

(* run_deep_disk_cleanup without its validation loop. *)
run_deep_disk_cleanup_unvalidated(env) ==
  run_powershell_command(Str(join("; ", deep_disk_cleanup_commands)), FALSE, TRUE, env)

RECURSIVE first_invalid(_, _)
(* The validation loop: the index of the first command from position k on that
   _validate_command rejects, 0 when the loop runs to its end. *)
first_invalid(commands, k) ==
  IF k > Len(commands) THEN 0
  ELSE IF ~_validate_command(Str(commands[k])) THEN k
  ELSE first_invalid(commands, k + 1)

run_deep_disk_cleanup(env) ==
  LET commands == deep_disk_cleanup_commands
      bad == first_invalid(commands, 1)
  IN  IF bad # 0
      THEN Rejected(showerror("Security Error",
                              "Invalid command detected: " \o commands[bad]))
      ELSE run_powershell_command(Str(join("; ", commands)), FALSE, TRUE, env)

(* re.match(r'^[a-zA-Z0-9.\-]+$', app_id): one or more characters of the
   class, up to the end of the string or, as $ also matches there, up to a
   newline that ends the string. *)
IdChars == CharsOf(LowerCase) \cup CharsOf(UpperCase) \cup CharsOf(Digits) \cup {".", "-"}

re_match_app_id(app_id) ==
  LET n == Len(app_id)
      class(m) == m >= 1 /\ \A i \in 1..m : CharAt(app_id, i) \in IdChars
  IN  class(n) \/ (n >= 1 /\ CharAt(app_id, n) = "\n" /\ class(n - 1))

(* install_software handing its command over with skip_security_check=True. *)
install_software_bypassed(app_name, app_id, answer, env) ==
  IF Falsy(app_name) \/ Falsy(app_id)
  THEN Rejected(showerror("Error", "Invalid software parameters provided."))
  ELSE IF ~re_match_app_id(app_id.str)
  THEN Rejected(showerror("Error", "Invalid software ID format."))
  ELSE IF ~In(".", app_id.str)
  THEN Rejected(showerror("Error", "Invalid winget ID format."))
  ELSE
    LET ask == askyesno("Confirm Installation",
                        "Do you want to install " \o app_name.str \o "?\n\n"
                        \o "Software ID: " \o app_id.str \o "\n"
                        \o "This will install the software silently in the background.",
                        answer)
        command == "winget install -e --id \"" \o app_id.str \o "\" --silent"
        r == run_powershell_command(Str(command), TRUE, TRUE, env)
    IN  IF ~answer THEN Rejected(ask)
        ELSE Effects(<<ask>> \o r.dialogs, r.calls, r.log, FALSE, r.blocked)

(* install_software building its command without the quotes round the
   identifier. *)
install_software_unquoted(app_name, app_id, answer, env) ==
  IF Falsy(app_name) \/ Falsy(app_id)
  THEN Rejected(showerror("Error", "Invalid software parameters provided."))
  ELSE IF ~re_match_app_id(app_id.str)
  THEN Rejected(showerror("Error", "Invalid software ID format."))
  ELSE IF ~In(".", app_id.str)
  THEN Rejected(showerror("Error", "Invalid winget ID format."))
  ELSE
    LET ask == askyesno("Confirm Installation",
                        "Do you want to install " \o app_name.str \o "?\n\n"
                        \o "Software ID: " \o app_id.str \o "\n"
                        \o "This will install the software silently in the background.",
                        answer)
        command == "winget install -e --id " \o app_id.str \o " --silent"
        r == run_powershell_command(Str(command), FALSE, TRUE, env)
    IN  IF ~answer THEN Rejected(ask)
        ELSE Effects(<<ask>> \o r.dialogs, r.calls, r.log, FALSE, r.blocked)

(* MainstallApp.install_software (mainstall.py 1405-1442); answer is the
   user's answer to the confirmation dialog. *)

install_software(app_name, app_id, answer, env) ==
  IF Falsy(app_name) \/ Falsy(app_id)
  THEN Rejected(showerror("Error", "Invalid software parameters provided."))
  ELSE IF ~re_match_app_id(app_id.str)
  THEN Rejected(showerror("Error", "Invalid software ID format."))
  ELSE IF ~In(".", app_id.str)
  THEN Rejected(showerror("Error", "Invalid winget ID format."))
  ELSE
    LET ask == askyesno("Confirm Installation",
                        "Do you want to install " \o app_name.str \o "?\n\n"
                        \o "Software ID: " \o app_id.str \o "\n"
                        \o "This will install the software silently in the background.",
                        answer)
        command == "winget install -e --id \"" \o app_id.str \o "\" --silent"
        r == run_powershell_command(Str(command), FALSE, TRUE, env)
    IN  IF ~answer THEN Rejected(ask)
        ELSE IF r.raised
        THEN Effects(<<ask>> \o r.dialogs
                     \o <<showerror("Installation Error",
                                    "Failed to start installation of " \o app_name.str
                                    \o ":\n" \o env.spawn)>>,
                     r.calls, r.log, FALSE, FALSE)
        ELSE Effects(<<ask>> \o r.dialogs, r.calls, r.log, FALSE, r.blocked)

(* confirm_and_run_maintenance running the task whatever the answer. *)
confirm_and_run_maintenance_unasked(task_name, command, answer, env) ==
  LET ask == askyesno("Confirm Maintenance Task",
                      "Are you sure you want to run: " \o task_name
                      \o "?\n\nThis will open a PowerShell window and make changes to your system.",
                      answer)
      r == run_powershell_command(command, TRUE, TRUE, env)
  IN  Effects(<<ask>> \o r.dialogs, r.calls, r.log, r.raised, r.blocked)

(* MainstallApp.confirm_and_run_maintenance (mainstall.py 1486-1494) *)

confirm_and_run_maintenance(task_name, command, answer, env) ==
  LET ask == askyesno("Confirm Maintenance Task",
                      "Are you sure you want to run: " \o task_name
                      \o "?\n\nThis will open a PowerShell window and make changes to your system.",
                      answer)
      r == run_powershell_command(command, TRUE, TRUE, env)
  IN  IF ~answer THEN Rejected(ask)
      ELSE Effects(<<ask>> \o r.dialogs, r.calls, r.log, r.raised, r.blocked)

(* MainstallApp.confirm_and_run_deep_disk_cleanup (mainstall.py 1496-1504) *)

confirm_and_run_deep_disk_cleanup(answer, env) ==
  LET ask == askyesno("Confirm Deep Disk Cleanup",
                      "Are you sure you want to run Deep Disk Cleanup?\n\nThis will open a PowerShell window and perform advanced cleanup operations.",
                      answer)
      r == run_deep_disk_cleanup(env)
  IN  IF ~answer THEN Rejected(ask)
      ELSE Effects(<<ask>> \o r.dialogs, r.calls, r.log, r.raised, r.blocked)

(* MainstallApp.confirm_and_run_quick_fix (mainstall.py 1506-1514) *)

confirm_and_run_quick_fix(task_name, command, answer, env) ==
  LET ask == askyesno("Confirm Quick Fix",
                      "Are you sure you want to run: " \o task_name
                      \o "?\n\nThis will open a PowerShell window and execute the command.",
                      answer)
      r == run_powershell_command(command, TRUE, TRUE, env)
  IN  IF ~answer THEN Rejected(ask)
      ELSE Effects(<<ask>> \o r.dialogs, r.calls, r.log, r.raised, r.blocked)

(* subprocess.run(..., timeout=timeout) on a child described by env: raises the
   spawn error, raises TimeoutExpired when the child outlives the timeout, and
   otherwise returns the completed process. *)
subprocess_run(env, timeout) ==
  IF env.spawn # "ok" THEN [raised |-> env.spawn, returncode |-> 0, stdout |-> ""]
  ELSE IF env.duration > timeout
  THEN [raised |-> "TimeoutExpired", returncode |-> 0, stdout |-> ""]
  ELSE [raised |-> "", returncode |-> env.returncode, stdout |-> env.stdout]

registry_call(command, env) ==
  [api |-> "run", command |-> command, visible |-> FALSE,
   skip_security_check |-> FALSE,
   has_timeout |-> TRUE, timeout |-> RegistryTimeout,
   started |-> env.spawn = "ok"]

(* get_registry_value returning the output whatever the exit code, and letting
   a spawn error through. *)
get_registry_value_unguarded(command, env) ==
  LET result == subprocess_run(env, RegistryTimeout)
      got(value, raised) ==
        [value |-> value, raised |-> raised, calls |-> <<registry_call(command, env)>>]
  IN  IF result.raised = ""
      THEN IF strip(result.stdout) # ""
           THEN got(Str(strip(result.stdout)), "")
           ELSE got(None, "")
      ELSE IF result.raised = "TimeoutExpired" THEN got(None, "")
      ELSE got(None, result.raised)

(* MainstallApp.get_registry_value (mainstall.py 1516-1537): value is what it
   returns, raised the exception it lets through to its caller ("" for none). *)
get_registry_value(command, env) ==
  LET result == subprocess_run(env, RegistryTimeout)
      got(value, raised) ==
        [value |-> value, raised |-> raised, calls |-> <<registry_call(command, env)>>]
  IN  IF result.raised = ""
      THEN IF result.returncode = 0 /\ strip(result.stdout) # ""
           THEN got(Str(strip(result.stdout)), "")
           ELSE got(None, "")
      ELSE IF result.raised = "TimeoutExpired" THEN got(None, "")
      ELSE IF result.raised \in ExceptionClasses THEN got(None, "")
      ELSE got(None, result.raised)

(* initialize_setting_state taking every value but the off value for on. *)
initialize_setting_state_not_off(setting, var, env) ==
  LET r == get_registry_value(setting.get_command, env)
      current_value == r.value
      set(b) == [var |-> b, widget |-> b, calls |-> r.calls]
  IN  IF r.raised # "" THEN set(FALSE)
      ELSE IF ~current_value.isNone /\ strip(current_value.str) # ""
      THEN IF strip(current_value.str) # setting.light_value
           THEN set(TRUE)
           ELSE set(FALSE)
      ELSE set(FALSE)

(* initialize_setting_state with a ToggleSwitch.set that invokes the toggle's
   command callback, as ToggleSwitch.toggle does: the callback writes the value
   of the state just set. *)
initialize_setting_state_set_invokes_command(setting, var, env) ==
  LET r == get_registry_value(setting.get_command, env)
      current_value == r.value
      command(b) ==
        run_powershell_command(
          Str(format_value(setting.set_command_template,
                           IF b THEN setting.dark_value ELSE setting.light_value)),
          TRUE, FALSE,
          [spawn |-> "ok", exits |-> TRUE, returncode |-> 0, log_writable |-> TRUE])
      set(b) == [var |-> b, widget |-> b, calls |-> r.calls \o command(b).calls]
  IN  IF r.raised # "" THEN set(FALSE)
      ELSE IF ~current_value.isNone /\ strip(current_value.str) # ""
      THEN IF strip(current_value.str) = setting.dark_value
           THEN set(TRUE)
           ELSE set(FALSE)
      ELSE set(FALSE)

(* MainstallApp.initialize_setting_state (mainstall.py 1539-1570): var is the
   value the BooleanVar is left with, widget the value given to
   ToggleSwitch.set (mainstall.py 80-83), which stores it and redraws; the
   parameter var is the value the BooleanVar holds at the call. *)
initialize_setting_state(setting, var, env) ==
  LET r == get_registry_value(setting.get_command, env)
      current_value == r.value
      set(b) == [var |-> b, widget |-> b, calls |-> r.calls]
  IN  IF r.raised # "" THEN set(FALSE)
      ELSE IF ~current_value.isNone /\ strip(current_value.str) # ""
      THEN IF strip(current_value.str) = setting.dark_value
           THEN set(TRUE)
           ELSE set(FALSE)
      ELSE set(FALSE)

(* toggle_setting choosing the value by the state before the click. *)
toggle_setting_stale_state(setting, state, env) ==
  LET clicked == ~state
      new_value == IF state THEN setting.dark_value ELSE setting.light_value
      command == format_value(setting.set_command_template, new_value)
      r == run_powershell_command(Str(command), TRUE, FALSE, env)
  IN  [var |-> IF r.raised THEN ~clicked ELSE clicked,
       effects |-> Effects(r.dialogs, r.calls, r.log, FALSE, r.blocked)]

(* ToggleSwitch.toggle (mainstall.py 69-74) followed by the command it calls,
   MainstallApp.toggle_setting (mainstall.py 1572-1605). state is the value of
   the BooleanVar before the click; var is its value when the handler ends. *)
toggle_setting(setting, state, env) ==
  LET clicked == ~state
      new_value == IF clicked THEN setting.dark_value ELSE setting.light_value
      action == IF clicked THEN "enabled" ELSE "disabled"
      command == format_value(setting.set_command_template, new_value)
      r == run_powershell_command(Str(command), TRUE, FALSE, env)
      extra_msg ==
        IF setting.name = "Dark Mode for Apps"
        THEN "\n\nYou may need to restart apps or log out and log back in for the change to take effect."
        ELSE IF setting.reboot_required
        THEN "\n\nA system restart may be required for changes to take effect."
        ELSE ""
  IN  IF r.raised
      THEN [var |-> ~clicked,
            effects |-> Effects(r.dialogs
                                \o <<showerror("Error",
                                               "Failed to update " \o setting.name
                                               \o ": " \o env.spawn)>>,
                                r.calls, r.log, FALSE, FALSE)]
      ELSE IF r.blocked
      THEN [var |-> clicked, effects |-> r]
      ELSE [var |-> clicked,
            effects |-> Effects(r.dialogs
                                \o <<showinfo("Setting Updated",
                                              setting.name \o " has been " \o action
                                              \o "." \o extra_msg)>>,
                                r.calls, r.log, FALSE, FALSE)]

------------------------------------------------------------------------------
(* The state machine *)

Settings == 1..Len(system_settings_definitions)

NoValue == [kind |-> "none"]
NoOp == [name |-> "mainloop"]

Init ==
  /\ pc = "idle"
  /\ op = NoOp
  /\ ret = NoValue
  /\ dialogs = <<>>
  /\ subprocess_calls = <<>>
  /\ error_log = <<>>
  /\ settings_vars = [s \in Settings |-> FALSE]
  /\ refresh_i = 0

(* A handler has run: what it did becomes the record of the dispatch. *)
Dispatched(e) ==
  /\ pc' = IF e.blocked THEN "blocked" ELSE "done"
  /\ ret' = [kind |-> "handler", raised |-> e.raised]
  /\ dialogs' = e.dialogs
  /\ subprocess_calls' = e.calls
  /\ error_log' = e.log

(* mainloop takes the next event: the record of the last dispatch is dropped. *)
Return ==
  /\ pc = "done"
  /\ pc' = "idle"
  /\ op' = NoOp
  /\ ret' = NoValue
  /\ dialogs' = <<>>
  /\ subprocess_calls' = <<>>
  /\ error_log' = <<>>
  /\ UNCHANGED <<settings_vars, refresh_i>>

MaxInstallerButtons == 12

(* The installer buttons the model clicks: the first MaxInstallerButtons
   entries of the catalog. *)
InstallerButtons ==
  1..(IF Len(software_categories) < MaxInstallerButtons
      THEN Len(software_categories) ELSE MaxInstallerButtons)

(* The value at x of a function given by its graph, a set of <<x, f(x)>>. *)
Apply(graph, x) == (CHOOSE p \in graph : p[1] = x)[2]

(* The command bound to each button, as the graph of what it does over the
   user's answer and the environment.  The maintenance buttons (mainstall.py
   403-420): Deep Disk Cleanup has its own handler, every other button calls
   confirm_and_run_maintenance with its text and command. *)
maintenance_button_command ==
  {<<x, IF maintenance_buttons[x[1]].text = "Deep Disk Cleanup"
        THEN confirm_and_run_deep_disk_cleanup(x[2], x[3])
        ELSE confirm_and_run_maintenance(maintenance_buttons[x[1]].text,
                                         maintenance_buttons[x[1]].command, x[2], x[3])>> :
     x \in (1..Len(maintenance_buttons)) \X BOOLEAN \X PopenEnvs}

(* The quick-fix buttons (mainstall.py 982-990). *)
quick_fix_button_command ==
  {<<x, confirm_and_run_quick_fix(quick_fixes_buttons[x[1]].text,
                                  quick_fixes_buttons[x[1]].command, x[2], x[3])>> :
     x \in (1..Len(quick_fixes_buttons)) \X BOOLEAN \X PopenEnvs}

(* The installer buttons (mainstall.py 863-870). *)
installer_button_command ==
  {<<x, install_software(Str(software_categories[x[1]].app_name),
                         Str(software_categories[x[1]].app_id), x[2], x[3])>> :
     x \in InstallerButtons \X BOOLEAN \X PopenEnvs}

(* The toggle switches (mainstall.py 1043-1048), over the state of the toggle
   at the click. *)
toggle_switch_command ==
  {<<x, toggle_setting(system_settings_definitions[x[1]], x[2], x[3])>> :
     x \in Settings \X BOOLEAN \X ExecEnvs}

(* A maintenance button other than Deep Disk Cleanup is clicked. *)
ClickMaintenance ==
  /\ pc = "idle"
  /\ \E i \in 1..Len(maintenance_buttons), answer \in BOOLEAN :
       \E env \in EnvsFor(answer) :
         /\ maintenance_buttons[i].text # "Deep Disk Cleanup"
         /\ op' = [name |-> "confirm_and_run_maintenance", button |-> i,
                   answer |-> answer, env |-> env]
         /\ Dispatched(Apply(maintenance_button_command, <<i, answer, env>>))
  /\ UNCHANGED <<settings_vars, refresh_i>>

(* The Deep Disk Cleanup button is clicked. *)
ClickDeepDiskCleanup ==
  /\ pc = "idle"
  /\ \E i \in 1..Len(maintenance_buttons), answer \in BOOLEAN :
       \E env \in EnvsFor(answer) :
         /\ maintenance_buttons[i].text = "Deep Disk Cleanup"
         /\ op' = [name |-> "confirm_and_run_deep_disk_cleanup", button |-> i,
                   answer |-> answer, env |-> env]
         /\ Dispatched(Apply(maintenance_button_command, <<i, answer, env>>))
  /\ UNCHANGED <<settings_vars, refresh_i>>

(* A quick-fix button is clicked. *)
ClickQuickFix ==
  /\ pc = "idle"
  /\ \E i \in 1..Len(quick_fixes_buttons), answer \in BOOLEAN :
       \E env \in EnvsFor(answer) :
         /\ op' = [name |-> "confirm_and_run_quick_fix", button |-> i,
                   answer |-> answer, env |-> env]
         /\ Dispatched(Apply(quick_fix_button_command, <<i, answer, env>>))
  /\ UNCHANGED <<settings_vars, refresh_i>>

(* An installer button is clicked. *)
ClickInstaller ==
  /\ pc = "idle"
  /\ \E i \in InstallerButtons, answer \in BOOLEAN :
       \E env \in EnvsFor(answer) :
         /\ op' = [name |-> "install_software", button |-> i,
                   answer |-> answer, env |-> env]
         /\ Dispatched(Apply(installer_button_command, <<i, answer, env>>))
  /\ UNCHANGED <<settings_vars, refresh_i>>

(* A toggle switch is clicked: ToggleSwitch.toggle flips the BooleanVar and
   calls toggle_setting. *)
ClickToggle ==
  /\ pc = "idle"
  /\ \E s \in Settings, env \in ExecEnvs :
       LET r == Apply(toggle_switch_command, <<s, settings_vars[s], env>>)
       IN
       /\ op' = [name |-> "toggle_setting", setting |-> s,
                 state |-> settings_vars[s], env |-> env]
       /\ Dispatched(r.effects)
       /\ settings_vars' = [settings_vars EXCEPT ![s] = r.var]
  /\ UNCHANGED refresh_i

(* The Refresh button (mainstall.py 1013): initialize_system_settings_states
   (mainstall.py 1224-1235) enters its loop over settings_vars. *)
ClickRefresh ==
  /\ pc = "idle"
  /\ pc' = "refresh"
  /\ op' = [name |-> "initialize_system_settings_states"]
  /\ ret' = NoValue
  /\ dialogs' = <<>>
  /\ subprocess_calls' = <<>>
  /\ error_log' = <<>>
  /\ refresh_i' = 0
  /\ UNCHANGED settings_vars

(* One iteration of the loop: the next setting is read, blocking the UI thread
   until the query ends or times out. *)
RefreshStep ==
  /\ pc = "refresh"
  /\ refresh_i < Len(system_settings_definitions)
  /\ \E env \in RefreshEnvs :
       LET s == refresh_i + 1
           r == initialize_setting_state(system_settings_definitions[s],
                                         settings_vars[s], env)
       IN
       /\ settings_vars' = [settings_vars EXCEPT ![s] = r.var]
       /\ subprocess_calls' = subprocess_calls \o r.calls
       /\ refresh_i' = s
       /\ pc' = IF s = Len(system_settings_definitions) THEN "done" ELSE "refresh"
  /\ ret' = [kind |-> "handler", raised |-> FALSE]
  /\ UNCHANGED <<op, dialogs, error_log>>

Next ==
  \/ ClickMaintenance
  \/ ClickDeepDiskCleanup
  \/ ClickQuickFix
  \/ ClickInstaller
  \/ ClickToggle
  \/ ClickRefresh
  \/ RefreshStep
  \/ Return

Spec == Init /\ [][Next]_vars

------------------------------------------------------------------------------
(* Start-up: main (mainstall.py 1620-1627) *)

(* The steps of MainstallApp.__init__ after the privilege check (mainstall.py
   214-221), each of which can raise. *)
ConstructSteps ==
  {"Tk", "setup_window", "setup_styles", "create_widgets", "setup_universal_scrolling"}

(* What the process is started as and what its construction meets: a frozen
   executable or a script, with or without administrator privileges; the
   exception one construction step raises, if any; whether the window icon and
   the About tab's image can be loaded (a failure to load the icon is caught
   and printed, and changes nothing else). *)
StartEnvs ==
  [frozen : BOOLEAN, admin : BOOLEAN,
   raises : {""} \cup ExceptionClasses, at : ConstructSteps,
   icon_loads : BOOLEAN, image_loads : BOOLEAN]

(* is_admin (mainstall.py 94-99) *)
is_admin(env) == env.admin

(* run_as_admin (mainstall.py 101-126): an unprivileged process asks the shell
   to start it again elevated and leaves through sys.exit(). *)
run_as_admin(env) ==
  IF ~is_admin(env)
  THEN [relaunched |-> TRUE, raised |-> "SystemExit"]
  ELSE [relaunched |-> FALSE, raised |-> ""]

(* MainstallApp.__init__ (mainstall.py 134-221): the privilege check, made
   only when the program is not frozen, then the window, the styles, the
   widgets and the scrolling.  setup_window catches what loading the icon
   raises (mainstall.py 235-249); create_about_tab catches what loading its
   image raises and shows it (mainstall.py 1081-1092). *)
MainstallApp__init__(env) ==
  LET check == IF ~env.frozen THEN run_as_admin(env)
               ELSE [relaunched |-> FALSE, raised |-> ""]
      image_error ==
        IF env.image_loads THEN <<>>
        ELSE <<showerror("Image Load Error",
                         "Failed to load Mainstall_Image_128.png")>>
      shown == IF env.raises # "" /\ env.at # "setup_universal_scrolling"
               THEN <<>> ELSE image_error
  IN  IF check.raised # ""
      THEN [raised |-> check.raised, relaunched |-> check.relaunched, dialogs |-> <<>>]
      ELSE [raised |-> env.raises, relaunched |-> FALSE, dialogs |-> shown]

(* The except clause of main without its sys.exit(1): main returns after the
   dialog and the process ends with status 0. *)
main_except_returns(shown, exception) ==
  [pc |-> "exited",
   dialogs |-> shown \o <<showerror("Fatal Error",
                                    "Application failed to start: " \o exception)>>,
   exit |-> [kind |-> "exit", status |-> 0, relaunched |-> FALSE]]

(* The except clause of main (mainstall.py 1625-1627): the exception is shown
   and the process exits with status 1. *)
main_except(shown, exception) ==
  [pc |-> "exited",
   dialogs |-> shown \o <<showerror("Fatal Error",
                                    "Application failed to start: " \o exception)>>,
   exit |-> [kind |-> "exit", status |-> 1, relaunched |-> FALSE]]

(* main up to app.run(): SystemExit is not an Exception and passes the except
   clause; sys.exit() without an argument gives exit status 0. *)
main_construct(env) ==
  LET app == MainstallApp__init__(env)
  IN  IF app.raised = "SystemExit"
      THEN [pc |-> "exited", dialogs |-> app.dialogs,
            exit |-> [kind |-> "exit", status |-> 0, relaunched |-> app.relaunched]]
      ELSE IF app.raised # ""
      THEN main_except(app.dialogs, app.raised)
      ELSE [pc |-> "constructed", dialogs |-> app.dialogs, exit |-> NoValue]

InitMain ==
  /\ pc = "main"
  /\ op = [name |-> "main", raised |-> ""]
  /\ ret = NoValue
  /\ dialogs = <<>>
  /\ subprocess_calls = <<>>
  /\ error_log = <<>>
  /\ settings_vars = [s \in Settings |-> FALSE]
  /\ refresh_i = 0

(* app = MainstallApp() *)
Construct ==
  /\ pc = "main"
  /\ \E env \in StartEnvs :
       LET r == main_construct(env)
       IN  /\ pc' = r.pc
           /\ op' = [name |-> "main", env |-> env,
                     raised |-> IF r.pc = "constructed" THEN ""
                                ELSE MainstallApp__init__(env).raised]
           /\ ret' = r.exit
           /\ dialogs' = r.dialogs
  /\ UNCHANGED <<subprocess_calls, error_log, settings_vars, refresh_i>>

(* app.run(): MainstallApp.run (mainstall.py 1607-1611) enters mainloop. *)
Run ==
  /\ pc = "constructed"
  /\ pc' = "idle"
  /\ op' = NoOp
  /\ ret' = NoValue
  /\ dialogs' = <<>>
  /\ UNCHANGED <<subprocess_calls, error_log, settings_vars, refresh_i>>

(* The window is closed: mainloop returns, and main after it. *)
MainloopReturns ==
  /\ pc = "idle"
  /\ pc' = "exited"
  /\ op' = [name |-> "main", raised |-> ""]
  /\ ret' = [kind |-> "exit", status |-> 0, relaunched |-> FALSE]
  /\ UNCHANGED <<dialogs, subprocess_calls, error_log, settings_vars, refresh_i>>

(* mainloop raises. *)
MainloopRaises ==
  /\ pc = "idle"
  /\ \E exception \in ExceptionClasses :
       LET r == main_except(<<>>, exception)
       IN  /\ pc' = r.pc
           /\ op' = [name |-> "main", raised |-> exception]
           /\ ret' = r.exit
           /\ dialogs' = r.dialogs
  /\ UNCHANGED <<subprocess_calls, error_log, settings_vars, refresh_i>>

NextMain ==
  \/ Construct
  \/ Run
  \/ MainloopReturns
  \/ MainloopRaises
  \/ Next

SpecMain == InitMain /\ [][NextMain]_vars

------------------------------------------------------------------------------

(* The registry behind the settings' commands *)

(* The text of s after the first occurrence of marker, up to the next
   character of stops or to the end of s. *)
After(marker, stops, s) ==
  LET at(i) == SubSeq(s, i, i + Len(marker) - 1) = marker
      first == CHOOSE i \in 1..Len(s) : at(i) /\ \A j \in 1..(i - 1) : ~at(j)
      from == first + Len(marker)
      ends == {k \in from..Len(s) : CharAt(s, k) \in stops}
      till == IF ends = {} THEN Len(s)
              ELSE (CHOOSE k \in ends : \A m \in ends : k <= m) - 1
  IN  SubSeq(s, from, till)

(* The registry value a Get-ItemProperty or Set-ItemProperty command of the
   catalog names: its -Path and its -Name (mainstall.py 148-203). *)
registry_key(command) ==
  <<After("-Path \"", {"\""}, command), After("-Name ", {" "}, command)>>

RegistryKeys ==
  UNION {{registry_key(system_settings_definitions[s].get_command),
          registry_key(system_settings_definitions[s].set_command_template)} :
           s \in Settings}

(* A registry value is absent ("") or a DWORD, written as its decimal text. *)
RegistryValues == {"", "0", "1", "2"}

(* The registries a run starts from: every value of RegistryKeys absent, or
   every one holding the same number. *)
Registries == {[k \in RegistryKeys |-> v] : v \in RegistryValues}

(* A write command of the catalog run to a successful end: Set-ItemProperty
   stores its -Value under the key. *)
Set_ItemProperty(command, registry) ==
  [registry EXCEPT ![registry_key(command)] = After("-Value ", {" "}, command)]

(* What a get_command of the catalog prints.  Three forms occur (mainstall.py
   148, 166, 202): the bare pipeline prints the value, and nothing when it is
   absent; the form ending in $val.ToString() prints "0" for an absent value;
   the form of 'Disable Startup Delay' prints "1" when the value is 0 and "0"
   when it is absent or not 0. *)
Get_ItemProperty(command, registry) ==
  LET value == registry[registry_key(command)]
      line(text) == IF text = "" THEN "" ELSE text \o "\n"
  IN  IF In("if ($val -eq $null -or $val -ne 0) { \"0\" } else { \"1\" }", command)
      THEN line(IF value = "0" THEN "1" ELSE "0")
      ELSE IF In("if ($val -eq $null) { \"0\" } else { $val.ToString() }", command)
      THEN line(IF value = "" THEN "0" ELSE value)
      ELSE line(value)

(* A setting is written by its toggle over a registry that nothing else
   modifies: the write takes effect when its process starts, exits and returns
   0.  op.registry is the registry the handler leaves. *)
ClickToggleOnRegistry ==
  /\ pc = "idle"
  /\ \E s \in Settings, env \in ExecEnvs, registry \in Registries :
       LET r == Apply(toggle_switch_command, <<s, settings_vars[s], env>>)
           written == /\ r.effects.calls # <<>>
                      /\ env.spawn = "ok" /\ env.exits /\ env.returncode = 0
       IN
       /\ op' = [name |-> "toggle_setting", setting |-> s,
                 state |-> settings_vars[s], env |-> env,
                 written |-> written,
                 registry |-> IF written
                              THEN Set_ItemProperty(r.effects.calls[1].command, registry)
                              ELSE registry]
       /\ Dispatched(r.effects)
       /\ settings_vars' = [settings_vars EXCEPT ![s] = r.var]
  /\ UNCHANGED refresh_i

(* The Refresh button is pressed after the toggle's dialog is closed. *)
ClickRefreshOnRegistry ==
  /\ pc = "done"
  /\ op.name = "toggle_setting"
  /\ pc' = "refresh"
  /\ op' = [name |-> "initialize_system_settings_states",
            registry |-> op.registry,
            toggled |-> [setting |-> op.setting, to |-> ~op.state,
                         written |-> op.written]]
  /\ ret' = NoValue
  /\ dialogs' = <<>>
  /\ subprocess_calls' = <<>>
  /\ error_log' = <<>>
  /\ refresh_i' = 0
  /\ UNCHANGED settings_vars

(* One iteration of the Refresh loop, its query answered from op.registry. *)
RefreshStepOnRegistry ==
  /\ pc = "refresh"
  /\ refresh_i < Len(system_settings_definitions)
  /\ LET s == refresh_i + 1
         setting == system_settings_definitions[s]
         env == [spawn |-> "ok", duration |-> 0, returncode |-> 0,
                 stdout |-> Get_ItemProperty(setting.get_command, op.registry)]
         r == initialize_setting_state(setting, settings_vars[s], env)
     IN
     /\ settings_vars' = [settings_vars EXCEPT ![s] = r.var]
     /\ subprocess_calls' = subprocess_calls \o r.calls
     /\ refresh_i' = s
     /\ pc' = IF s = Len(system_settings_definitions) THEN "done" ELSE "refresh"
  /\ ret' = [kind |-> "handler", raised |-> FALSE]
  /\ UNCHANGED <<op, dialogs, error_log>>

(* The user selects the System Settings tab of the notebook (mainstall.py
   997-998).  No command or event binding of the program is attached to the
   selection (the only bindings are the toggle click of 53-54, the tooltips
   of 399-401, 703-706 and 976-979, the scroll region of 444 and the mouse
   wheel of 1465-1484), so no code of the program runs.  op.registry is the registry at
   that moment; op.first tells that no event was handled before. *)
SelectSettingsTab ==
  /\ pc = "idle"
  /\ \E registry \in Registries :
       op' = [name |-> "select_tab", tab |-> "System Settings",
              registry |-> registry, first |-> op.name = "run"]
  /\ pc' = "done"
  /\ ret' = [kind |-> "handler", raised |-> FALSE]
  /\ dialogs' = <<>>
  /\ subprocess_calls' = <<>>
  /\ error_log' = <<>>
  /\ UNCHANGED <<settings_vars, refresh_i>>

(* MainstallApp.run has just entered the event loop (mainstall.py 1607-1611):
   the application is constructed and no event has been handled yet. *)
InitSettings ==
  /\ pc = "idle"
  /\ op = [name |-> "run"]
  /\ ret = NoValue
  /\ dialogs = <<>>
  /\ subprocess_calls = <<>>
  /\ error_log = <<>>
  /\ settings_vars = [s \in Settings |-> FALSE]
  /\ refresh_i = 0

NextSettings ==
  \/ SelectSettingsTab
  \/ ClickToggleOnRegistry
  \/ ClickRefreshOnRegistry
  \/ RefreshStepOnRegistry
  \/ Return

SpecSettings == InitSettings /\ [][NextSettings]_vars

------------------------------------------------------------------------------

(* The functions called on their own, on inputs drawn from bounded sets *)

UpperOf == [c \in CharsOf(LowerCase) |->
              CharAt(UpperCase, CHOOSE i \in 1..Len(LowerCase) : CharAt(LowerCase, i) = c)]

RECURSIVE upper(_)
upper(s) ==
  IF Len(s) = 0 THEN ""
  ELSE IF Len(s) = 1 THEN (IF s \in DOMAIN UpperOf THEN UpperOf[s] ELSE s)
  ELSE LET h == Len(s) \div 2
       IN  upper(SubSeq(s, 1, h)) \o upper(SubSeq(s, h + 1, Len(s)))

(* The characters the specification lists as deny-listed. *)
DenyListed == {";", "&", "|", BackQuote, "$", "(", ")", "{", "}", "[", "]"}

MaxFragments == 2

Fragments ==
  {"ren", " ", "REN ", "chkdsk", "x", ";", "$", "(", "\t", "Sfc /ScanNow", "cmd", "/c"}

RECURSIVE Concatenations(_)
Concatenations(n) ==
  IF n = 0 THEN {""}
  ELSE LET shorter == Concatenations(n - 1)
       IN  shorter \cup {a \o b : a \in shorter, b \in Fragments}

(* Every allow-list entry as written, upper-cased, inside a longer command,
   followed by each deny-listed character, and with its first or last
   character missing. *)
AllowListForms ==
  UNION {LET e == vc_allowed_commands[k]
         IN  {e, upper(e), "echo " \o e \o " now", Tail(e), SubSeq(e, 1, Len(e) - 1)}
             \cup {e \o d \o "del" : d \in DenyListed}
         : k \in 1..Len(vc_allowed_commands)}

CatalogCommands ==
  {maintenance_buttons[i].command.str : i \in 1..Len(maintenance_buttons)}
  \cup {quick_fixes_buttons[i].command.str : i \in 1..Len(quick_fixes_buttons)}
  \cup {deep_disk_cleanup_commands[i] : i \in 1..Len(deep_disk_cleanup_commands)}
  \cup {join("; ", deep_disk_cleanup_commands)}

CommandInputs ==
  {None}
  \cup {Str(c) : c \in Concatenations(MaxFragments) \cup AllowListForms \cup CatalogCommands}

Called(name_and_inputs, value, e) ==
  /\ pc' = IF e.blocked THEN "blocked" ELSE "done"
  /\ op' = name_and_inputs
  /\ ret' = value
  /\ dialogs' = e.dialogs
  /\ subprocess_calls' = e.calls
  /\ error_log' = e.log

NoEffects == Effects(<<>>, <<>>, <<>>, FALSE, FALSE)

Call_validate_command ==
  /\ pc = "idle"
  /\ \E command \in CommandInputs :
       Called([name |-> "_validate_command", command |-> command],
              [kind |-> "bool", value |-> _validate_command(command)],
              NoEffects)
  /\ UNCHANGED <<settings_vars, refresh_i>>

Call_run_powershell_command ==
  /\ pc = "idle"
  /\ \E command \in CommandInputs, skip_security_check \in BOOLEAN,
        visible_window \in BOOLEAN :
       \E env \in IF visible_window THEN PopenEnvs ELSE ExecEnvs :
         LET e == run_powershell_command(command, skip_security_check,
                                         visible_window, env)
         IN  Called([name |-> "run_powershell_command", command |-> command,
                     skip_security_check |-> skip_security_check,
                     visible_window |-> visible_window, env |-> env],
                    [kind |-> "handler", raised |-> e.raised], e)
  /\ UNCHANGED <<settings_vars, refresh_i>>

(* The next call starts from a fresh application. *)
Teardown ==
  /\ pc = "done"
  /\ pc' = "idle"
  /\ op' = NoOp
  /\ ret' = NoValue
  /\ dialogs' = <<>>
  /\ subprocess_calls' = <<>>
  /\ error_log' = <<>>
  /\ settings_vars' = [s \in Settings |-> FALSE]
  /\ refresh_i' = 0

NextValidator ==
  \/ Call_validate_command
  \/ Call_run_powershell_command
  \/ Teardown

SpecValidator == Init /\ [][NextValidator]_vars

(* install_software on catalog entries and on identifiers that are empty,
   missing, malformed or almost well-formed. *)
NameInputs == {None, Str(""), Str("Some App")}

AppIdInputs ==
  {None}
  \cup {Str(p) : p \in {"", "Foo.Bar", "foo", "Invalid Id!", ".", "-", "a.b-c.1",
                        "Foo.Bar ", " Foo.Bar", "Foo.Bar\n", "Foo.Bar\n\n", "\n",
                        "Foo\n.Bar", "Foo.Bar\r", "Foo.Bar;calc", "Foo_Bar.Baz",
                        "Foo.Bar\" --silent", "FooBar\n", "7zip.7zip"}}

InstallInputs ==
  (NameInputs \X AppIdInputs)
  \cup {<<Str(software_categories[i].app_name), Str(software_categories[i].app_id)>> :
          i \in 1..Len(software_categories)}

Call_install_software ==
  /\ pc = "idle"
  /\ \E x \in InstallInputs, answer \in BOOLEAN :
       \E env \in EnvsFor(answer) :
         LET e == install_software(x[1], x[2], answer, env)
         IN  Called([name |-> "install_software", app_name |-> x[1], app_id |-> x[2],
                     answer |-> answer, env |-> env],
                    [kind |-> "handler", raised |-> e.raised], e)
  /\ UNCHANGED <<settings_vars, refresh_i>>

NextInstall ==
  \/ Call_install_software
  \/ Teardown

SpecInstall == Init /\ [][NextInstall]_vars

(* get_registry_value and initialize_setting_state on every setting of the
   catalog, against every query outcome of ReadEnvs. *)
Call_get_registry_value ==
  /\ pc = "idle"
  /\ \E s \in Settings, env \in ReadEnvs :
       LET command == system_settings_definitions[s].get_command
           r == get_registry_value(command, env)
       IN  Called([name |-> "get_registry_value", command |-> command, env |-> env],
                  [kind |-> "value", value |-> r.value, raised |-> r.raised],
                  Effects(<<>>, r.calls, <<>>, r.raised # "", FALSE))
  /\ UNCHANGED <<settings_vars, refresh_i>>

Call_initialize_setting_state ==
  /\ pc = "idle"
  /\ \E s \in Settings, var \in BOOLEAN, env \in ReadEnvs :
       LET r == initialize_setting_state(system_settings_definitions[s], var, env)
       IN  /\ Called([name |-> "initialize_setting_state", setting |-> s,
                      var |-> var, env |-> env],
                     [kind |-> "state", var |-> r.var, widget |-> r.widget],
                     Effects(<<>>, r.calls, <<>>, FALSE, FALSE))
           /\ settings_vars' = [settings_vars EXCEPT ![s] = r.var]
  /\ UNCHANGED refresh_i

NextRegistry ==
  \/ Call_get_registry_value
  \/ Call_initialize_setting_state
  \/ Teardown

SpecRegistry == Init /\ [][NextRegistry]_vars

------------------------------------------------------------------------------
(* The validator and the executor on arbitrary commands *)

HasDenyListed(c) == \E i \in 1..Len(c) : CharAt(c, i) \in DenyListed

HasAllowListed(c) == \E k \in 1..Len(vc_allowed_commands) : In(vc_allowed_commands[k], c)

Blank(command) ==
  command.isNone \/ \A i \in 1..Len(command.str) : CharAt(command.str, i) \in Whitespace

Validated == pc = "done" /\ op.name = "_validate_command"

Ran == pc \in {"done", "blocked"} /\ op.name = "run_powershell_command"

(* C1: a command that contains a deny-listed character is rejected by
   _validate_command, whether or not it also contains an allow-listed
   substring. *)
C1_DenyListedIsRejected ==
  (Validated /\ HasDenyListed(op.command.str)) => ret.value = FALSE

C1_Witness ==
  /\ Validated
  /\ HasDenyListed(op.command.str)
  /\ HasAllowListed(lower(op.command.str))
  /\ ret.value = FALSE

(* C2: a command with no deny-listed character whose lower-cased form contains
   an allow-list entry is accepted by _validate_command, whatever the case of
   its letters. *)
C2_AllowListedIsAccepted ==
  (Validated /\ ~HasDenyListed(op.command.str) /\ HasAllowListed(lower(op.command.str)))
    => ret.value = TRUE

C2_Witness ==
  /\ Validated
  /\ ~HasDenyListed(op.command.str)
  /\ HasAllowListed(lower(op.command.str))
  /\ ~HasAllowListed(op.command.str)
  /\ ret.value = TRUE

(* C3: a command with no deny-listed character whose lower-cased form contains
   no allow-list entry is rejected by _validate_command. *)
C3_NotAllowListedIsRejected ==
  (Validated /\ ~op.command.isNone /\ ~HasDenyListed(op.command.str)
     /\ ~HasAllowListed(lower(op.command.str)))
    => ret.value = FALSE

C3_Witness ==
  /\ Validated
  /\ ~Blank(op.command)
  /\ ~HasDenyListed(op.command.str)
  /\ ~HasAllowListed(lower(op.command.str))
  /\ ret.value = FALSE

(* C4: for an empty, None or whitespace-only command _validate_command returns
   False, and run_powershell_command, with or without skip_security_check,
   shows the error "No command provided." and makes no subprocess call. *)
C4_BlankIsRefused ==
  /\ (Validated /\ Blank(op.command)) => ret.value = FALSE
  /\ (Ran /\ Blank(op.command))
       => /\ dialogs = <<showerror("Error", "No command provided.")>>
          /\ subprocess_calls = <<>>
          /\ pc = "done"

C4_Witness ==
  /\ Ran
  /\ op.skip_security_check
  /\ Blank(op.command)
  /\ ~Falsy(op.command)
  /\ dialogs = <<showerror("Error", "No command provided.")>>
  /\ subprocess_calls = <<>>

------------------------------------------------------------------------------
(* The installer *)

Installed == pc = "done" /\ op.name = "install_software"

Asked == \E k \in 1..Len(dialogs) : dialogs[k].kind = "askyesno"

(* An identifier of ASCII letters, digits, '.' and '-' only, with a '.'. *)
WellFormedId(p) ==
  /\ Len(p) >= 1
  /\ \A i \in 1..Len(p) :
       CharAt(p, i) \in CharsOf("abcdefghijklmnopqrstuvwxyzABCDEFGHIJKLMNOPQRSTUVWXYZ0123456789.-")
  /\ \E i \in 1..Len(p) : CharAt(p, i) = "."

(* C5: install_software(name, p) reaches the confirmation dialog, and can ask
   for a process, only if name and p are non-empty, p consists solely of ASCII
   letters, digits, '.' and '-', and p contains a '.'; for every other p one
   error dialog is shown and no process is asked for. *)
C5_OnlyWellFormedIdsInstall ==
  Installed =>
    LET ok == ~Falsy(op.app_name) /\ ~Falsy(op.app_id) /\ WellFormedId(op.app_id.str)
    IN  /\ (Asked \/ subprocess_calls # <<>>) => ok
        /\ ~ok => /\ Len(dialogs) = 1
                  /\ dialogs[1].kind = "showerror"
                  /\ subprocess_calls = <<>>

------------------------------------------------------------------------------
(* Deep Disk Cleanup *)

DeepCleanupConfirmed ==
  pc = "done" /\ op.name = "confirm_and_run_deep_disk_cleanup" /\ op.answer

(* The constituent commands that _validate_command rejects. *)
RejectedCleanupCommands ==
  {k \in 1..Len(deep_disk_cleanup_commands) :
     ~_validate_command(Str(deep_disk_cleanup_commands[k]))}

(* C6: if a constituent command of run_deep_disk_cleanup fails
   _validate_command, no process is asked for, and the error dialog names the
   first command, in list order, that failed. *)
C6_CleanupAllOrNothing ==
  (DeepCleanupConfirmed /\ RejectedCleanupCommands # {})
    => /\ subprocess_calls = <<>>
       /\ Len(dialogs) = 2
       /\ dialogs[2] =
            showerror("Security Error",
                      "Invalid command detected: "
                      \o deep_disk_cleanup_commands[
                           CHOOSE k \in RejectedCleanupCommands :
                             \A j \in RejectedCleanupCommands : k <= j])

C6_Witness ==
  /\ DeepCleanupConfirmed
  /\ RejectedCleanupCommands # {}
  /\ RejectedCleanupCommands # 1..Len(deep_disk_cleanup_commands)
  /\ subprocess_calls = <<>>
  /\ dialogs[2].title = "Security Error"

(* C7: when the user confirms Deep Disk Cleanup, exactly one visible console
   process is spawned, and its command is the constituent commands joined in
   list order with "; ". *)
C7_CleanupRunsJoinedCommand ==
  (DeepCleanupConfirmed /\ op.env.spawn = "ok")
    => /\ Len(subprocess_calls) = 1
       /\ subprocess_calls[1].visible
       /\ subprocess_calls[1].started
       /\ subprocess_calls[1].command = join("; ", deep_disk_cleanup_commands)

------------------------------------------------------------------------------
(* The registry-backed settings *)

Initialized == pc = "done" /\ op.name = "initialize_setting_state"

(* C8: after initialize_setting_state(setting, var) the setting is on, in var
   and in its toggle widget, exactly when the registry read returned a value
   whose trimmed text equals the setting's dark_value; the off value, any other
   text and an absent result all yield off. *)
C8_OnIffReadEqualsOnValue ==
  Initialized =>
    LET setting == system_settings_definitions[op.setting]
        read == get_registry_value(setting.get_command, op.env)
        on == /\ read.raised = ""
              /\ ~read.value.isNone
              /\ strip(read.value.str) = setting.dark_value
    IN  /\ ret.var = on
        /\ ret.widget = on
        /\ settings_vars[op.setting] = on

C8_Witness ==
  /\ Initialized
  /\ ~op.var
  /\ system_settings_definitions[op.setting].dark_value = "1"
  /\ op.env.stdout = " 1\r\n"
  /\ ret.var /\ ret.widget /\ settings_vars[op.setting]

Read == pc = "done" /\ op.name = "get_registry_value"

(* C9: get_registry_value returns the trimmed standard output when the query
   exits with code 0 within the 10-unit limit and its trimmed output is not
   empty; after a non-zero exit, an empty output, a timeout or a spawn error
   it returns None; it never raises to its caller. *)
C9_ReadReturnsTrimmedOutputOrNone ==
  Read =>
    LET succeeded == /\ op.env.spawn = "ok"
                     /\ op.env.duration <= 10
                     /\ op.env.returncode = 0
                     /\ strip(op.env.stdout) # ""
    IN  /\ ret.raised = ""
        /\ ret.value = IF succeeded THEN Str(strip(op.env.stdout)) ELSE None
        /\ Len(subprocess_calls) = 1
        /\ subprocess_calls[1].has_timeout
        /\ subprocess_calls[1].timeout = 10

C9_Witness ==
  /\ Read
  /\ op.env.spawn = "ok"
  /\ op.env.duration = 10
  /\ op.env.returncode = 0
  /\ op.env.stdout = " 1\r\n"
  /\ ret.value = Str("1")

Toggled == pc \in {"done", "blocked"} /\ op.name = "toggle_setting"

(* C10: toggle_setting executes, in a non-visible call with the deny-list check
   skipped, the setting's write template with its placeholder replaced by
   dark_value when the toggle is on after the click and by light_value when it
   is off, and executes nothing else. *)
C10_ToggleWritesStateValue ==
  Toggled =>
    LET setting == system_settings_definitions[op.setting]
        value == IF ~op.state THEN setting.dark_value ELSE setting.light_value
    IN  /\ Len(subprocess_calls) = 1
        /\ subprocess_calls[1].command = format_value(setting.set_command_template, value)
        /\ ~subprocess_calls[1].visible
        /\ subprocess_calls[1].skip_security_check

C10_Witness ==
  /\ Toggled
  /\ system_settings_definitions[op.setting].name = "Dark Mode for Apps"
  /\ ~op.state
  /\ settings_vars[op.setting]
  /\ subprocess_calls[1].started
  /\ In("-Name AppsUseLightTheme -Value 0 -Type DWord", subprocess_calls[1].command)

------------------------------------------------------------------------------
(* Confirmation *)

(* A handler has run, to its end or into a call that never returns. *)
Handled == pc \in {"done", "blocked"}

ButtonHandlers ==
  {"confirm_and_run_maintenance", "confirm_and_run_deep_disk_cleanup",
   "confirm_and_run_quick_fix", "install_software"}

(* The handlers whose processes change the system; the Refresh button's
   processes only read the registry. *)
MutatingHandlers == ButtonHandlers \cup {"toggle_setting"}

(* The first dialog of the dispatch asked for confirmation and was answered
   yes. *)
ConfirmedFirst ==
  /\ Len(dialogs) >= 1
  /\ dialogs[1].kind = "askyesno"
  /\ dialogs[1].answer = "yes"

(* What the confirmation dialog of the clicked button has to name. *)
ActionName ==
  IF op.name = "install_software" THEN software_categories[op.button].app_name
  ELSE IF op.name = "confirm_and_run_quick_fix" THEN quick_fixes_buttons[op.button].text
  ELSE maintenance_buttons[op.button].text

(* C11 as stated: in every run, each process that changes the system
   (maintenance task, quick fix, deep disk cleanup, software install, setting
   write) is asked for only after the user has answered yes to a confirmation
   dialog for that action. *)
C11_EveryMutationConfirmed ==
  (Handled /\ op.name \in MutatingHandlers /\ subprocess_calls # <<>>)
    => ConfirmedFirst

(* C11 as amended: the processes of maintenance tasks, quick fixes, deep disk
   cleanup and software installs are asked for only after a yes to a
   confirmation dialog that names the action; a setting write is asked for by
   the click on the toggle alone, and no confirmation dialog is shown for it. *)
C11_ButtonsConfirmedTogglesNot ==
  /\ (Handled /\ op.name \in ButtonHandlers /\ subprocess_calls # <<>>)
       => /\ ConfirmedFirst
          /\ op.answer
          /\ In(ActionName, dialogs[1].message)
  /\ (Handled /\ op.name = "toggle_setting")
       => /\ subprocess_calls # <<>>
          /\ \A k \in 1..Len(dialogs) : dialogs[k].kind # "askyesno"

C11_Witness ==
  /\ Handled
  /\ op.name = "toggle_setting"
  /\ Len(subprocess_calls) = 1
  /\ subprocess_calls[1].started
  /\ Len(dialogs) = 1
  /\ dialogs[1].kind = "showinfo"

------------------------------------------------------------------------------
(* The bypass path *)

Bypassed == Ran /\ op.skip_security_check /\ ~Blank(op.command)

(* C12 as stated: a non-empty command given to run_powershell_command with
   skip_security_check=True is executed whatever _validate_command would say
   of it; neither the deny list nor the allow list can block it. *)
C12_BypassRunsAnything ==
  Bypassed => Len(subprocess_calls) = 1

(* C12 as amended: with skip_security_check=True the deny list cannot block a
   non-empty command, but the allow list still can: the command is executed
   exactly when its lower-cased form contains an allow-list entry, and is
   otherwise refused with 'Command not in allowed list.' and nothing is
   executed. *)
C12_BypassSkipsDenyListOnly ==
  Bypassed =>
    IF HasAllowListed(lower(op.command.str))
    THEN /\ Len(subprocess_calls) = 1
         /\ subprocess_calls[1].command = op.command.str
    ELSE /\ subprocess_calls = <<>>
         /\ dialogs = <<showerror("Security Error", "Command not in allowed list.")>>

C12_Witness ==
  /\ Bypassed
  /\ HasDenyListed(op.command.str)
  /\ ~_validate_command(op.command)
  /\ Len(subprocess_calls) = 1
  /\ subprocess_calls[1].started

(* The fixed command strings of the maintenance and quick-fix catalogs. *)
CatalogTaskCommands ==
  {maintenance_buttons[i].command.str :
     i \in {j \in 1..Len(maintenance_buttons) : ~maintenance_buttons[j].command.isNone}}
  \cup {quick_fixes_buttons[i].command.str : i \in 1..Len(quick_fixes_buttons)}

(* The write template of setting s with its on or its off value substituted. *)
SettingWrites(s) ==
  LET setting == system_settings_definitions[s]
  IN  {format_value(setting.set_command_template, v) :
         v \in {setting.dark_value, setting.light_value}}

(* C13: in every reachable state, every command executed with
   skip_security_check=True is the fixed command string of a maintenance or
   quick-fix catalog entry, or a setting's write template with that same
   setting's on or off value substituted. *)
C13_BypassOnlyFromCatalog ==
  \A k \in 1..Len(subprocess_calls) :
    subprocess_calls[k].skip_security_check =>
      \/ /\ op.name \in {"confirm_and_run_maintenance", "confirm_and_run_quick_fix"}
         /\ subprocess_calls[k].command \in CatalogTaskCommands
      \/ /\ op.name = "toggle_setting"
         /\ subprocess_calls[k].command \in SettingWrites(op.setting)

C13_Witness ==
  /\ Handled
  /\ op.name = "confirm_and_run_quick_fix"
  /\ Len(subprocess_calls) = 1
  /\ subprocess_calls[1].skip_security_check
  /\ subprocess_calls[1].started
  /\ HasDenyListed(subprocess_calls[1].command)

------------------------------------------------------------------------------
(* The installer catalog *)

(* install_software was called with the name and identifier of a catalog
   entry, as every installer button calls it. *)
InstalledFromCatalog ==
  /\ Installed
  /\ ~op.app_name.isNone /\ ~op.app_id.isNone
  /\ \E i \in 1..Len(software_categories) :
       /\ software_categories[i].app_name = op.app_name.str
       /\ software_categories[i].app_id = op.app_id.str

(* C14: every entry of the installer catalog has an identifier of ASCII
   letters, digits, '.' and '-' only that contains a '.', so that every
   installer button gets past install_software's identifier checks and
   reaches the confirmation dialog. *)
C14_CatalogIdsWellFormed ==
  InstalledFromCatalog =>
    /\ WellFormedId(op.app_id.str)
    /\ Len(dialogs) >= 1
    /\ dialogs[1].kind = "askyesno"

(* install_software let the identifier through its checks, and the user
   answered yes. *)
InstallConfirmed ==
  /\ Installed
  /\ Len(dialogs) >= 1
  /\ dialogs[1].kind = "askyesno"
  /\ op.answer

(* C15: for every identifier p that passes install_software's checks, a
   confirmed install asks for exactly one process, in a visible console, whose
   command is exactly 'winget install -e --id "p" --silent'; the command
   passes the deny-list and allow-list screening, so no Security Error is
   shown. *)
C15_InstallCommandShape ==
  InstallConfirmed =>
    /\ Len(subprocess_calls) = 1
    /\ subprocess_calls[1].visible
    /\ subprocess_calls[1].api = "Popen"
    /\ subprocess_calls[1].started = (op.env.spawn = "ok")
    /\ subprocess_calls[1].command
         = "winget install -e --id \"" \o op.app_id.str \o "\" --silent"
    /\ \A k \in 1..Len(dialogs) : dialogs[k].title # "Security Error"

C15_Witness ==
  /\ InstallConfirmed
  /\ op.app_id = Str("7zip.7zip")
  /\ dialogs = <<dialogs[1]>>
  /\ subprocess_calls[1].started
  /\ subprocess_calls[1].command = "winget install -e --id \"7zip.7zip\" --silent"

------------------------------------------------------------------------------
(* Timeouts and failures of the executor *)

(* C16: every non-visible execution, a registry read or a setting write, is
   made under the fixed timeout and so never blocks the UI thread
   indefinitely; only visible console launches have no timeout. *)
C16_NonVisibleRunsTimeBounded ==
  /\ \A k \in 1..Len(subprocess_calls) :
       IF subprocess_calls[k].visible
       THEN ~subprocess_calls[k].has_timeout
       ELSE /\ subprocess_calls[k].has_timeout
            /\ subprocess_calls[k].timeout = RegistryTimeout
  /\ pc # "blocked"

(* run_powershell_command got as far as asking for a process, and the
   operating system refused to start it. *)
SpawnFailed == Ran /\ subprocess_calls # <<>> /\ op.env.spawn # "ok"

(* C17: when spawning the process fails in run_powershell_command, the failure
   is reported in an error dialog containing the command text, a record with
   the error and the command is appended to the error log, and no second spawn
   is attempted: one dispatch asks for at most one process. *)
C17_SpawnFailureReported ==
  /\ Ran => Len(subprocess_calls) <= 1
  /\ SpawnFailed =>
       /\ \E k \in 1..Len(dialogs) :
            /\ dialogs[k].kind = "showerror"
            /\ In(op.command.str, dialogs[k].message)
       /\ \E j \in 1..Len(error_log) :
            /\ In(op.env.spawn, error_log[j])
            /\ In(op.command.str, error_log[j])

(* The process of a setting write ran and exited with a non-zero code. *)
WriteExitedNonZero ==
  /\ pc = "done"
  /\ op.name = "toggle_setting"
  /\ op.env.spawn = "ok"
  /\ op.env.exits
  /\ op.env.returncode # 0

(* C18: a setting write whose process returns a non-zero exit code is treated
   as an execution error: it is shown in an error dialog with the command
   text, appended to the error log, and not reported as a successful
   update. *)
C18_NonZeroExitIsAnError ==
  WriteExitedNonZero =>
    /\ \E k \in 1..Len(dialogs) :
         /\ dialogs[k].kind = "showerror"
         /\ In(subprocess_calls[1].command, dialogs[k].message)
    /\ error_log # <<>>
    /\ \A k \in 1..Len(dialogs) : dialogs[k].title # "Setting Updated"

(* The command is one that the screening of run_powershell_command is to
   refuse: it holds a deny-listed character and the deny list applies, or its
   lower-cased form holds no allow-list entry. *)
Screened ==
  /\ Ran
  /\ ~Blank(op.command)
  /\ \/ ~op.skip_security_check /\ HasDenyListed(op.command.str)
     \/ ~HasAllowListed(lower(op.command.str))

(* C19: when run_powershell_command rejects a command in its deny-list or
   allow-list screening, one error dialog is shown, no process is asked for,
   the error log is not written, and no setting state is changed. *)
C19_RejectionHasNoEffect ==
  Screened =>
    /\ pc = "done"
    /\ Len(dialogs) = 1
    /\ dialogs[1].kind = "showerror"
    /\ dialogs[1].title = "Security Error"
    /\ subprocess_calls = <<>>
    /\ error_log = <<>>
    /\ ret.raised = FALSE
    /\ settings_vars = [s \in Settings |-> FALSE]

C19_Witness ==
  /\ Screened
  /\ ~op.skip_security_check
  /\ HasDenyListed(op.command.str)
  /\ HasAllowListed(lower(op.command.str))
  /\ dialogs = <<showerror("Security Error",
                           "Command contains potentially dangerous characters.")>>
  /\ subprocess_calls = <<>>

------------------------------------------------------------------------------
(* Start-up failures *)

(* An Exception left MainstallApp() or app.run() in main. *)
RaisedInMain == op.name = "main" /\ op.raised \in ExceptionClasses

(* C20: an exception raised while MainstallApp is constructed or run is shown
   in a 'Fatal Error' dialog and followed by process exit with status 1; the
   application does not go on into the event loop after it. *)
C20_ExceptionIsFatal ==
  RaisedInMain =>
    /\ pc = "exited"
    /\ ret.kind = "exit"
    /\ ret.status = 1
    /\ Len(dialogs) >= 1
    /\ dialogs[Len(dialogs)]
         = showerror("Fatal Error", "Application failed to start: " \o op.raised)

C20_Witness ==
  /\ RaisedInMain
  /\ op.raised = "OSError"
  /\ pc = "exited"
  /\ ret.status = 1
  /\ subprocess_calls = <<>>
  /\ dialogs = <<showerror("Fatal Error", "Application failed to start: OSError")>>

------------------------------------------------------------------------------
(* Privileges *)

(* main has called MainstallApp() in a process without administrator
   privileges. *)
StartedUnprivileged ==
  /\ op.name = "main"
  /\ "env" \in DOMAIN op
  /\ ~op.env.admin

(* C21: an instance started without administrator privileges re-launches
   itself elevated and exits before it creates the main window, whether it is
   started as a script or as a frozen executable. *)
C21_UnprivilegedRelaunches ==
  StartedUnprivileged =>
    /\ pc = "exited"
    /\ ret.kind = "exit"
    /\ ret.relaunched
    /\ dialogs = <<>>

------------------------------------------------------------------------------
(* Settings and the registry *)

(* A Refresh has ended that followed a toggle whose write succeeded. *)
RefreshedAfterWrite ==
  /\ pc = "done"
  /\ op.name = "initialize_system_settings_states"
  /\ op.toggled.written

(* C22: for every setting and each target state, if the user toggles the
   setting to that state, the write succeeds, nothing else modifies the
   registry and the user then presses Refresh, the setting is displayed in
   that state. *)
C22_WriteThenRefreshAgree ==
  RefreshedAfterWrite => settings_vars[op.toggled.setting] = op.toggled.to

(* The number of {value} placeholders in a template. *)
Placeholders(template) ==
  Cardinality({i \in 1..(Len(template) - 6) : SubSeq(template, i, i + 6) = "{value}"})

(* C23: the write template of every setting contains exactly one value
   placeholder, so the command executed when the setting is toggled on
   carries its on value, the command executed when it is toggled off carries
   its off value, and the two commands differ. *)
C23_OnePlaceholderPerTemplate ==
  Toggled =>
    LET setting == system_settings_definitions[op.setting]
        value == IF ~op.state THEN setting.dark_value ELSE setting.light_value
        other == IF ~op.state THEN setting.light_value ELSE setting.dark_value
    IN  /\ Placeholders(setting.set_command_template) = 1
        /\ In("-Value " \o value, subprocess_calls[1].command)
        /\ subprocess_calls[1].command
             # format_value(setting.set_command_template, other)

(* The write of a toggle failed: its process could not be started, or ran and
   returned a non-zero exit code. *)
WriteFailed ==
  /\ pc = "done"
  /\ op.name = "toggle_setting"
  /\ \/ op.env.spawn # "ok"
     \/ op.env.returncode # 0

(* C24: when the write command of toggle_setting fails, the toggle's state is
   reverted to the value it had before the click, so that the displayed state
   is never a value that was not written. *)
C24_FailedWriteReverts ==
  WriteFailed => settings_vars[op.setting] = op.state

(* The state initialize_setting_state gives setting s when its query is
   answered from registry. *)
StateRead(s, registry) ==
  LET setting == system_settings_definitions[s]
  IN  initialize_setting_state(
        setting, FALSE,
        [spawn |-> "ok", duration |-> 0, returncode |-> 0,
         stdout |-> Get_ItemProperty(setting.get_command, registry)]).var

(* The System Settings tab is shown for the first time, before the user has
   pressed Refresh or clicked a toggle. *)
TabFirstAccessed == op.name = "select_tab" /\ op.first

(* C25: the states of all settings are initialized from the registry when the
   System Settings tab is first accessed: before the user has pressed Refresh
   or clicked any toggle, each toggle shows the state read from the system. *)
C25_InitializedOnFirstAccess ==
  TabFirstAccessed =>
    \A s \in Settings : settings_vars[s] = StateRead(s, op.registry)

(* Command c begins, after leading whitespace, with an allow-list entry. *)
LeadsWithAllowListed(c) ==
  \E k \in 1..Len(vc_allowed_commands), i \in 1..Len(c) :
    /\ \A j \in 1..(i - 1) : CharAt(c, j) \in Whitespace
    /\ i + Len(vc_allowed_commands[k]) - 1 <= Len(c)
    /\ SubSeq(c, i, i + Len(vc_allowed_commands[k]) - 1) = vc_allowed_commands[k]

(* The command of the call has no deny-listed character and does not begin
   with an allow-list entry, and an allow-list entry occurs later in it. *)
AllowListedLater ==
  /\ ~HasDenyListed(op.command.str)
  /\ ~LeadsWithAllowListed(lower(op.command.str))
  /\ HasAllowListed(lower(op.command.str))

(* C26: the allow-list check is by containment at any position: a command with
   no deny-listed character that does not begin with an allow-listed verb but
   contains an allow-list entry later is accepted by _validate_command and is
   handed to the process spawn by run_powershell_command. *)
C26_AllowListMatchesAnywhere ==
  /\ (Validated /\ AllowListedLater) => ret.value = TRUE
  /\ (Ran /\ AllowListedLater) =>
       /\ Len(subprocess_calls) = 1
       /\ subprocess_calls[1].command = op.command.str
       /\ \A k \in 1..Len(dialogs) : dialogs[k].title # "Security Error"

C26_Witness ==
  /\ Ran
  /\ AllowListedLater
  /\ ~op.skip_security_check
  /\ Len(subprocess_calls) = 1
  /\ subprocess_calls[1].started

(* run_powershell_command was called with its security check on. *)
RanChecked == Ran /\ ~op.skip_security_check

(* The call reached the process-spawn step. *)
ReachedSpawn == subprocess_calls # <<>>

(* C27: run_powershell_command called without skip_security_check reaches the
   process-spawn step if and only if _validate_command returns True for the
   same command. *)
C27_ExecutorAgreesWithValidator ==
  RanChecked => (ReachedSpawn <=> _validate_command(op.command))

C27_Witness ==
  /\ RanChecked
  /\ ReachedSpawn
  /\ _validate_command(op.command)
  /\ lower(op.command.str) # op.command.str

------------------------------------------------------------------------------
(* The catalogs against the allow list *)

(* A catalog action that runs with skip_security_check=True went ahead: a
   maintenance task or quick fix was confirmed, or a toggle was clicked. *)
CatalogDispatched ==
  /\ Handled
  /\ \/ /\ op.name \in {"confirm_and_run_maintenance", "confirm_and_run_quick_fix"}
        /\ op.answer
     \/ op.name = "toggle_setting"

(* The command the catalog holds for the action. *)
CatalogCommand ==
  IF op.name = "confirm_and_run_maintenance" THEN maintenance_buttons[op.button].command.str
  ELSE IF op.name = "confirm_and_run_quick_fix" THEN quick_fixes_buttons[op.button].command.str
  ELSE LET setting == system_settings_definitions[op.setting]
       IN  format_value(setting.set_command_template,
                        IF ~op.state THEN setting.dark_value ELSE setting.light_value)

(* C28: every command the catalogs dispatch with skip_security_check=True
   (maintenance tasks with a command, quick fixes, the settings' write templates
   with the on and the off value) contains an allow-list entry, so a confirmed
   catalog action reaches the process spawn and is never refused with 'Command
   not in allowed list.'. *)
C28_CatalogPassesAllowList ==
  CatalogDispatched =>
    /\ AnyIn(rpc_allowed_commands, lower(CatalogCommand))
    /\ Len(subprocess_calls) = 1
    /\ subprocess_calls[1].skip_security_check
    /\ \A k \in 1..Len(dialogs) : dialogs[k].message # "Command not in allowed list."

C28_Witness ==
  /\ CatalogDispatched
  /\ op.name = "confirm_and_run_maintenance"
  /\ HasDenyListed(CatalogCommand)
  /\ AnyIn(rpc_allowed_commands, lower(CatalogCommand))
  /\ ~AnyIn(rpc_allowed_commands, CatalogCommand)
  /\ Len(subprocess_calls) = 1
  /\ subprocess_calls[1].started

------------------------------------------------------------------------------
(* Refresh *)

(* initialize_system_settings_states is in its loop or has ended. *)
Refreshing ==
  /\ op.name = "initialize_system_settings_states"
  /\ pc \in {"refresh", "done"}

(* Call k of the dispatch is the registry read of setting k. *)
IsReadOf(k) ==
  /\ subprocess_calls[k].command = system_settings_definitions[k].get_command
  /\ ~In("Set-ItemProperty", subprocess_calls[k].command)
  /\ ~subprocess_calls[k].skip_security_check
  /\ ~subprocess_calls[k].visible
  /\ subprocess_calls[k].has_timeout

(* The calls made so far in a Refresh are the reads of the settings already
   visited, one each and in the order of the catalog; a Refresh that has ended
   has visited every setting. *)
RefreshReadsInOrder ==
  Refreshing =>
    /\ Len(subprocess_calls) = refresh_i
    /\ \A k \in 1..refresh_i : IsReadOf(k)
    /\ pc = "done" => refresh_i = Len(system_settings_definitions)
    /\ dialogs = <<>>

(* A step of the loop adds one call and leaves the state of every setting but
   the one it reads as it was. *)
RefreshStepFrame ==
  (pc = "refresh") =>
    /\ refresh_i' = refresh_i + 1
    /\ Len(subprocess_calls') = Len(subprocess_calls) + 1
    /\ \A t \in Settings : t # refresh_i' => settings_vars'[t] = settings_vars[t]

(* C29: a Refresh performs exactly one registry read per setting, one after
   another, and issues no write command: setting a toggle through
   ToggleSwitch.set does not invoke the toggle's command callback, and each
   read changes the state of its own setting only. *)
C29_RefreshOnlyReads ==
  /\ []RefreshReadsInOrder
  /\ [][RefreshStepFrame]_vars

C29_Witness ==
  /\ Refreshing
  /\ pc = "done"
  /\ Len(subprocess_calls) = Len(system_settings_definitions)
  /\ \E s, t \in Settings : settings_vars[s] /\ ~settings_vars[t]
  /\ \E k \in 1..Len(subprocess_calls) : ~subprocess_calls[k].started

====
